---- MODULE Spec2Model ----
(***************************************************************************)
(* World builder: the page-tree engine (lib/models/pageTree.ts), the       *)
(* change-log reducer (lib/models/worldChanges.ts), world normalization    *)
(* and the remote sync client of the Home component, with the server's     *)
(* syncWorldChanges behind the network boundary.                           *)
(*                                                                         *)
(* JavaScript objects are records; an absent (undefined) field is a field  *)
(* that is not in the record's DOMAIN.  Ids are strings.  null / '' ids    *)
(* are the empty string (both are falsy where the code tests them).        *)
(***************************************************************************)
EXTENDS Integers, Sequences, FiniteSets, TLC

\* -------------------------------------------------------------------------
\* Bounds of the model
\* -------------------------------------------------------------------------
MaxMutations == 1   \* local mutations (handleAddPage) per run
MaxFailures == 1    \* transport failures (failed PATCH or GET) per run
MaxInflight == 2    \* PATCH requests awaiting their response at one time
MaxRetries == 2     \* failed PATCH requests per run of the retry scenario
MaxChanges == 3     \* changes applyWorldChanges is given in one call
MaxNodes == 5       \* nodes of the forest the page-tree functions are given
MaxCalls == 3       \* page-tree calls made one after the other
MaxPasses == 2      \* normalizeWorlds applied to its own result
MaxRequests == 2    \* PATCH requests the server is given on its own
MaxBurst == 2       \* local mutations of a burst
MaxEdits == 2       \* local mutations of the editing handlers
MaxSessions == 2    \* PATCH requests of one owner the server processes together

\* -------------------------------------------------------------------------
\* Program constants
\* -------------------------------------------------------------------------
ACTIVITY_LIMIT == 40

NoId == ""          \* null / undefined / '' where an id is expected
Null == "<null>"    \* null or undefined where ?? tells it from ''
Now == "now"        \* new Date().toISOString(), Date.now()
OwnerUid == "local-user"   \* authUser?.uid ?? 'local-user'

\* -------------------------------------------------------------------------
\* JavaScript helpers
\* -------------------------------------------------------------------------
\* {...r, ...s}
Spread(r, s) ==
    [k \in DOMAIN r \cup DOMAIN s |-> IF k \in DOMAIN s THEN s[k] ELSE r[k]]

\* r.f ?? d for a field that is present or left out
Get(r, f, d) == IF f \in DOMAIN r THEN r[f] ELSE d

\* r.f ?? d for an id, which may also be present and null
GetId(r, f, d) == IF f \in DOMAIN r /\ r[f] # Null THEN r[f] ELSE d

\* array.slice(0): the copy without the limit
SliceAll(s, n) == s

\* array.slice(0, n)
Slice(s, n) == SubSeq(s, 1, IF Len(s) < n THEN Len(s) ELSE n)

\* The elements of an array
Range(s) == {s[k] : k \in 1..Len(s)}

\* A filter that lets every element through
FilterNone(s, p) == s

\* A callback applied to the elements of an array is a function on them.
\* array.filter(p)
RECURSIVE Filter(_, _)
Filter(s, p) ==
    IF s = <<>> THEN <<>>
    ELSE (IF p[Head(s)] THEN <<Head(s)>> ELSE <<>>) \o Filter(Tail(s), p)

\* generateId(prefix) with the n-th unique suffix
generateId(prefix, n) == prefix \o "-" \o ToString(n)

\* -------------------------------------------------------------------------
\* lib/models/pageTree.ts
\* -------------------------------------------------------------------------
RECURSIVE cloneNode(_)
cloneNode(node) ==
    Spread(node, [children |-> [i \in 1..Len(node.children) |-> cloneNode(node.children[i])]])

clonePageTree(nodes) == [i \in 1..Len(nodes) |-> cloneNode(nodes[i])]

\* page.id || generateId('page'): every page the model builds carries an id;
\* the generated one is the id kept for a page without id.
normalizePage(page) ==
    [id |-> IF Get(page, "id", NoId) # NoId THEN page.id ELSE generateId("page", 0),
     title |-> Get(page, "title", "Untitled page"),
     content |-> Get(page, "content", ""),
     favorite |-> Get(page, "favorite", FALSE),
     children |-> clonePageTree(Get(page, "children", <<>>))]

createPage(title, id) ==
    [id |-> id, title |-> title, content |-> "", favorite |-> FALSE, children |-> <<>>]

RECURSIVE findPageInTree(_, _)
findPageInTree(nodes, id) ==
    IF nodes = <<>> THEN <<>>
    ELSE IF Head(nodes).id = id THEN <<Head(nodes)>>
    ELSE LET child == findPageInTree(Head(nodes).children, id)
         IN  IF child # <<>> THEN child ELSE findPageInTree(Tail(nodes), id)

RECURSIVE insertIntoChildren(_, _, _)
insertIntoChildren(nodes, parentId, page) ==
    IF nodes = <<>> THEN [nodes |-> <<>>, inserted |-> FALSE]
    ELSE LET node == Head(nodes)
         IN  IF node.id = parentId
             THEN [nodes |-> <<Spread(cloneNode(node),
                                      [children |-> Append(clonePageTree(node.children),
                                                           normalizePage(page))])>>
                             \o clonePageTree(Tail(nodes)),
                   inserted |-> TRUE]
             ELSE LET result == insertIntoChildren(node.children, parentId, page)
                  IN  IF result.inserted
                      THEN [nodes |-> <<Spread(cloneNode(node), [children |-> result.nodes])>>
                                      \o clonePageTree(Tail(nodes)),
                            inserted |-> TRUE]
                      ELSE LET rest == insertIntoChildren(Tail(nodes), parentId, page)
                           IN  [nodes |-> <<cloneNode(node)>> \o rest.nodes,
                                inserted |-> rest.inserted]

\* An addition that never looks for the parent
addPageToRoots(nodes, parentId, page) == Append(clonePageTree(nodes), normalizePage(page))

addPageToTree(nodes, parentId, page) ==
    LET normalized == normalizePage(page)
    IN  IF parentId = NoId
        THEN Append(clonePageTree(nodes), normalized)
        ELSE LET result == insertIntoChildren(nodes, parentId, normalized)
             IN  IF result.inserted THEN result.nodes
                 ELSE Append(clonePageTree(nodes), normalized)

\* The for loop of insertRelative, from the node at the head of `nodes` on,
\* with the loop's `inserted` flag as a parameter.
RECURSIVE insertRelativeFrom(_, _, _, _, _)
insertRelativeFrom(nodes, targetId, page, position, inserted) ==
    IF nodes = <<>> THEN [nodes |-> <<>>, inserted |-> inserted]
    ELSE LET node == Head(nodes)
             before == ~inserted /\ node.id = targetId /\ position = "before"
             result == insertRelativeFrom(node.children, targetId, page, position, FALSE)
             cloned == IF result.inserted
                       THEN Spread(cloneNode(node), [children |-> result.nodes])
                       ELSE cloneNode(node)
             mid == inserted \/ before \/ result.inserted
             after == ~mid /\ node.id = targetId /\ position = "after"
             rest == insertRelativeFrom(Tail(nodes), targetId, page, position, mid \/ after)
         IN  [nodes |-> (IF before THEN <<normalizePage(page)>> ELSE <<>>)
                        \o <<cloned>>
                        \o (IF after THEN <<normalizePage(page)>> ELSE <<>>)
                        \o rest.nodes,
              inserted |-> rest.inserted]

\* An insertion that takes every position for 'after'
insertRelativeAfter(nodes, targetId, page, position) ==
    insertRelativeFrom(nodes, targetId, page, "after", FALSE)

insertRelative(nodes, targetId, page, position) ==
    insertRelativeFrom(nodes, targetId, page, position, FALSE)

insertPageAfter(nodes, targetId, page) == insertRelative(nodes, targetId, page, "after")

insertPageBefore(nodes, targetId, page) == insertRelative(nodes, targetId, page, "before")

\* A removal that looks at the roots only and never descends
removePageFromRoots(nodes, pageId) ==
    LET matches == Filter(nodes, [node \in Range(nodes) |-> node.id = pageId])
    IN  [nodes |-> clonePageTree(Filter(nodes, [node \in Range(nodes) |-> node.id # pageId])),
         removed |-> IF matches = <<>> THEN <<>> ELSE <<cloneNode(matches[Len(matches)])>>]

\* removed is <<>> for null, <<node>> otherwise.  Every node is visited (map),
\* and `removed` is assigned at each match: the last match in pre-order of the
\* top-level scan wins, while every matching node is detached.
RECURSIVE removePageFromTree(_, _)
removePageFromTree(nodes, pageId) ==
    IF nodes = <<>> THEN [nodes |-> <<>>, removed |-> <<>>]
    ELSE LET node == Head(nodes)
             rest == removePageFromTree(Tail(nodes), pageId)
         IN  IF node.id = pageId
             THEN [nodes |-> rest.nodes,
                   removed |-> IF rest.removed # <<>> THEN rest.removed
                               ELSE <<cloneNode(node)>>]
             ELSE LET result == removePageFromTree(node.children, pageId)
                      cloned == IF result.removed # <<>>
                                THEN Spread(cloneNode(node), [children |-> result.nodes])
                                ELSE cloneNode(node)
                  IN  [nodes |-> <<cloned>> \o rest.nodes,
                       removed |-> IF rest.removed # <<>> THEN rest.removed
                                   ELSE result.removed]

\* A move that trusts the insertion to have found its target
movePageBeforeOrDrop(nodes, pageId, targetId) ==
    LET removal == removePageFromTree(nodes, pageId)
    IN  IF removal.removed = <<>> THEN clonePageTree(nodes)
        ELSE insertPageBefore(removal.nodes, targetId, removal.removed[1]).nodes

movePageBefore(nodes, pageId, targetId) ==
    LET removal == removePageFromTree(nodes, pageId)
    IN  IF removal.removed = <<>> THEN clonePageTree(nodes)
        ELSE LET insertion == insertPageBefore(removal.nodes, targetId, removal.removed[1])
             IN  IF insertion.inserted THEN insertion.nodes
                 ELSE Append(removal.nodes, normalizePage(removal.removed[1]))

RECURSIVE flattenPages(_)
flattenPages(nodes) ==
    IF nodes = <<>> THEN <<>>
    ELSE <<Head(nodes)>> \o flattenPages(Head(nodes).children) \o flattenPages(Tail(nodes))

\* The while loop of isDescendant: the node on top of the stack is popped and
\* compared, its children are pushed.
RECURSIVE isDescendantOnStack(_, _)
isDescendantOnStack(stack, candidateId) ==
    IF stack = <<>> THEN FALSE
    ELSE LET current == stack[Len(stack)]
         IN  IF current.id = candidateId THEN TRUE
             ELSE isDescendantOnStack(SubSeq(stack, 1, Len(stack) - 1) \o current.children,
                                      candidateId)

\* A test that looks at the children of the node only
isChild(nodes, parentId, candidateId) ==
    /\ findPageInTree(nodes, parentId) # <<>>
    /\ \E i \in 1..Len(findPageInTree(nodes, parentId)[1].children) :
          findPageInTree(nodes, parentId)[1].children[i].id = candidateId

RECURSIVE isDescendant(_, _, _)
isDescendant(nodes, parentId, candidateId) ==
    IF nodes = <<>> THEN FALSE
    ELSE LET node == Head(nodes)
         IN  IF node.id = parentId THEN isDescendantOnStack(node.children, candidateId)
             ELSE IF isDescendant(node.children, parentId, candidateId) THEN TRUE
             ELSE isDescendant(Tail(nodes), parentId, candidateId)

\* An update that asks no node for its id
RECURSIVE updateEveryPage(_, _, _)
updateEveryPage(nodes, pageId, updater) ==
    [i \in 1..Len(nodes) |->
        Spread(updater[cloneNode(nodes[i])],
               [children |-> updateEveryPage(nodes[i].children, pageId, updater)])]

RECURSIVE updatePageInTree(_, _, _)
updatePageInTree(nodes, pageId, updater) ==
    [i \in 1..Len(nodes) |->
        IF nodes[i].id = pageId
        THEN Spread(updater[cloneNode(nodes[i])],
                    [children |-> clonePageTree(nodes[i].children)])
        ELSE Spread(cloneNode(nodes[i]),
                    [children |-> updatePageInTree(nodes[i].children, pageId, updater)])]

\* -------------------------------------------------------------------------
\* lib/models/worldTypes.ts, lib/models/worldChanges.ts
\* -------------------------------------------------------------------------
initialWorlds == <<>>

\* A deterministic colour per id (the palette hash of the id's characters).
getAvatarColor(id) == "color(" \o id \o ")"

cloneWorld(world) ==
    Spread(world,
           [pages |-> clonePageTree(Get(world, "pages", <<>>)),
            collaborators |-> Get(world, "collaborators", <<>>),
            activity |-> Get(world, "activity", <<>>)])

sanitizeActivityEntry(entry) ==
    [f \in (DOMAIN entry \cap {"id", "action", "target", "context", "actorId", "actorName"})
           \cup {"timestamp"} |->
        IF f = "timestamp" THEN Get(entry, "timestamp", Now) ELSE entry[f]]

\* worlds.map(updater), whatever the world's id
withUpdatedWorldEvery(worlds, worldId, updater) ==
    [i \in 1..Len(worlds) |-> updater[worlds[i]]]

withUpdatedWorld(worlds, worldId, updater) ==
    [i \in 1..Len(worlds) |->
        IF worlds[i].id = worldId THEN updater[worlds[i]] ELSE worlds[i]]

\* One iteration of the reducer's for loop: the switch on change.type.
applyWorldChange(next, change) ==
    LET type == Get(change, "type", "")
    IN  CASE type = "createWorld" ->
               LET newWorld == cloneWorld(Spread(change.world,
                                   [pages |-> Get(change.world, "pages", <<>>),
                                    collaborators |-> Get(change.world, "collaborators", <<>>),
                                    activity |-> Get(change.world, "activity", <<>>)]))
                   other == [world \in Range(next) |-> world.id # newWorld.id]
               IN  Append(Filter(next, other), newWorld)
          [] type = "updateWorld" ->
               LET updater == [world \in Range(next) |-> Spread(world, change.data)]
               IN  withUpdatedWorld(next, change.worldId, updater)
          [] type = "deleteWorld" ->
               LET other == [world \in Range(next) |-> world.id # change.worldId]
               IN  Filter(next, other)
          [] type = "insertPage" ->
               LET updater == [world \in Range(next) |->
                       Spread(world, [pages |-> addPageToTree(world.pages, change.parentId,
                                                              change.page)])]
               IN  withUpdatedWorld(next, change.worldId, updater)
          [] type = "updatePage" ->
               LET merge(pages) ==
                       [page \in {cloneNode(node) : node \in Range(flattenPages(pages))} |->
                           Spread(page, change.data)]
                   updater == [world \in Range(next) |->
                       Spread(world, [pages |-> updatePageInTree(world.pages, change.pageId,
                                                                 merge(world.pages))])]
               IN  withUpdatedWorld(next, change.worldId, updater)
          [] type = "removePage" ->
               LET updater == [world \in Range(next) |->
                       Spread(world, [pages |-> removePageFromTree(world.pages,
                                                                   change.pageId).nodes])]
               IN  withUpdatedWorld(next, change.worldId, updater)
          [] type = "movePage" ->
               LET updater == [world \in Range(next) |->
                       LET removal == removePageFromTree(world.pages, change.pageId)
                       IN  IF removal.removed = <<>> THEN world
                           ELSE LET page == removal.removed[1]
                                    insertion ==
                                        IF change.position = "before"
                                        THEN insertPageBefore(removal.nodes, change.targetId, page)
                                        ELSE insertPageAfter(removal.nodes, change.targetId, page)
                                IN  Spread(world,
                                           [pages |-> IF insertion.inserted THEN insertion.nodes
                                                      ELSE Append(removal.nodes, page)])]
               IN  withUpdatedWorld(next, change.worldId, updater)
          [] type = "appendActivity" ->
               LET updater == [world \in Range(next) |->
                       LET entries == [i \in 1..Len(change.entries) |->
                                          sanitizeActivityEntry(change.entries[i])]
                           merged == entries \o world.activity
                       IN  Spread(world, [activity |-> Slice(merged, ACTIVITY_LIMIT)])]
               IN  withUpdatedWorld(next, change.worldId, updater)
          [] type = "setCollaborators" ->
               LET updater == [world \in Range(next) |->
                       Spread(world, [collaborators |-> change.collaborators])]
               IN  withUpdatedWorld(next, change.worldId, updater)
          [] OTHER -> next

\* The loop applying every change to the list it started from
applyChangesToSnapshot(next, changes) ==
    IF changes = <<>> THEN next
    ELSE applyWorldChange(next, changes[Len(changes)])

RECURSIVE applyChangesFrom(_, _)
applyChangesFrom(next, changes) ==
    IF changes = <<>> THEN next
    ELSE applyChangesFrom(applyWorldChange(next, Head(changes)), Tail(changes))

applyWorldChanges(worlds, changes) ==
    applyChangesFrom([i \in 1..Len(worlds) |-> cloneWorld(worlds[i])], changes)

\* -------------------------------------------------------------------------
\* World normalization and activity helper of the Home component's module
\* -------------------------------------------------------------------------
appendActivity(entries, entry) == Slice(<<entry>> \o entries, ACTIVITY_LIMIT)

RECURSIVE normalizePageTree(_)
normalizePageTree(nodes) ==
    [i \in 1..Len(nodes) |->
        Spread(nodes[i],
               [favorite |-> Get(nodes[i], "favorite", FALSE),
                children |-> normalizePageTree(Get(nodes[i], "children", <<>>))])]

\* The first collaborator with role Owner, <<>> when there is none (find).
RECURSIVE findOwner(_)
findOwner(list) ==
    IF list = <<>> THEN <<>>
    ELSE IF Head(list).role = "Owner" THEN <<Head(list)>> ELSE findOwner(Tail(list))

\* ownerId is Null when the world declares none.  `${worldId}-collaborator-${index}`
\* and `Collaborator ${index + 1}` are built from the index.
normalizeCollaborators(worldId, collaborators, ownerId, worldName) ==
    LET normalized ==
            [i \in 1..Len(collaborators) |->
                LET collaborator == collaborators[i]
                    collaboratorId == GetId(collaborator, "id",
                                          worldId \o "-collaborator-" \o ToString(i - 1))
                IN  [id |-> collaboratorId,
                     name |-> Get(collaborator, "name", "Collaborator " \o ToString(i)),
                     email |-> Get(collaborator, "email", "collaborator@example.com"),
                     role |-> Get(collaborator, "role",
                                  IF collaboratorId = ownerId THEN "Owner" ELSE "Editor"),
                     avatarColor |-> Get(collaborator, "avatarColor",
                                         getAvatarColor(collaboratorId))]]
        declared == /\ ownerId \notin {Null, ""}
                    /\ \E i \in 1..Len(normalized) : normalized[i].id = ownerId
        owner == findOwner(normalized)
        resolvedOwnerId == IF declared THEN ownerId
                           ELSE IF owner # <<>> THEN owner[1].id ELSE Null
    IN  IF resolvedOwnerId \in {Null, ""}
        THEN LET fallbackId == IF ownerId # Null THEN ownerId ELSE worldId \o "-owner"
             IN  [collaborators |->
                      <<[id |-> fallbackId, name |-> worldName \o " Owner",
                         email |-> "owner@example.com", role |-> "Owner",
                         avatarColor |-> getAvatarColor(fallbackId)]>> \o normalized,
                  ownerId |-> fallbackId]
        ELSE [collaborators |->
                  [i \in 1..Len(normalized) |->
                      IF normalized[i].id = resolvedOwnerId
                      THEN [normalized[i] EXCEPT !.role = "Owner"]
                      ELSE normalized[i]],
              ownerId |-> resolvedOwnerId]

normalizeActivity(activity) ==
    Slice([i \in 1..Len(activity) |->
              LET entry == activity[i]
              IN  [id |-> Get(entry, "id", generateId("activity", 0)),
                   action |-> Get(entry, "action", "update"),
                   target |-> Get(entry, "target", "Entry"),
                   context |-> Get(entry, "context", ""),
                   actorId |-> Get(entry, "actorId", "system"),
                   actorName |-> Get(entry, "actorName", "System"),
                   timestamp |-> IF Get(entry, "timestamp", "") # ""
                                 THEN entry.timestamp ELSE Now]],
          ACTIVITY_LIMIT)

normalizeWorlds(worlds) ==
    [i \in 1..Len(worlds) |->
        LET world == worlds[i]
            worldId == GetId(world, "id", generateId("world", 0))
            worldName == Get(world, "name", "Untitled world")
            result == normalizeCollaborators(worldId, Get(world, "collaborators", <<>>),
                                             GetId(world, "ownerId", Null), worldName)
        IN  [id |-> worldId,
             name |-> worldName,
             pages |-> normalizePageTree(Get(world, "pages", <<>>)),
             ownerId |-> result.ownerId,
             collaborators |-> result.collaborators,
             activity |-> normalizeActivity(Get(world, "activity", <<>>))]]

\* -------------------------------------------------------------------------
\* Server: lib/server/worldRepository.ts, lib/server/worldSyncService.ts,
\* app/api/worlds/sync/route.ts.  The collection is the sequence of the owner's
\* stored documents in the order find().sort({updatedAt: -1}) lists them; an
\* upsert stamps updatedAt with the current time, which puts the document first.
\* -------------------------------------------------------------------------
FALLBACK_USER_ID == "admin"

SUPPORTED_CHANGE_TYPES ==
    {"createWorld", "updateWorld", "deleteWorld", "insertPage", "updatePage",
     "removePage", "movePage", "appendActivity", "setCollaborators"}

mapWorld(document) ==
    Spread([id |-> document.docId,
            ownerId |-> Get(document, "ownerProfileId", document.ownerId),
            name |-> document.name,
            pages |-> document.pages,
            collaborators |-> document.collaborators,
            activity |-> document.activity,
            createdAt |-> document.createdAt,
            updatedAt |-> document.updatedAt],
           IF "description" \in DOMAIN document
           THEN [description |-> document.description] ELSE <<>>)

normalizeActivityForStorage(activity) ==
    LET sliced == Slice(activity, ACTIVITY_LIMIT)
    IN  [i \in 1..Len(sliced) |->
            Spread(sliced[i], [timestamp |-> IF Get(sliced[i], "timestamp", "") # ""
                                             THEN sliced[i].timestamp ELSE Now])]

listWorldsByOwner(documents) == [i \in 1..Len(documents) |-> mapWorld(documents[i])]

upsertWorld(documents, ownerId, world) ==
    LET same == [document \in Range(documents) |-> document.docId = world.id]
        other == [document \in Range(documents) |-> document.docId # world.id]
        found == Filter(documents, same)
        set == Spread([name |-> world.name,
                       pages |-> Get(world, "pages", <<>>),
                       collaborators |-> Get(world, "collaborators", <<>>),
                       activity |-> normalizeActivityForStorage(Get(world, "activity", <<>>)),
                       ownerProfileId |-> world.ownerId,
                       updatedAt |-> Now],
                      IF "description" \in DOMAIN world
                      THEN [description |-> world.description] ELSE <<>>)
        document == IF found # <<>> THEN Spread(found[1], set)
                    ELSE Spread([docId |-> world.id, ownerId |-> ownerId, createdAt |-> Now],
                                set)
    IN  <<document>> \o Filter(documents, other)

deleteWorld(documents, ownerId, worldId) ==
    LET other == [document \in Range(documents) |-> document.docId # worldId]
    IN  Filter(documents, other)

RECURSIVE upsertAll(_, _, _)
upsertAll(documents, ownerId, nextState) ==
    IF nextState = <<>> THEN documents
    ELSE upsertAll(upsertWorld(documents, ownerId, Head(nextState)), ownerId, Tail(nextState))

\* A call that writes the worlds of the next state and deletes none
syncWorldChangesKeepingAll(documents, ownerId, changes) ==
    LET return(stored) == [stored |-> stored, worlds |-> listWorldsByOwner(stored)]
    IN  IF changes = <<>> THEN return(documents)
        ELSE return(upsertAll(documents, ownerId,
                              applyWorldChanges(listWorldsByOwner(documents), changes)))

\* The stored documents after the call (stored), and the list the call returns.
syncWorldChanges(documents, ownerId, changes) ==
    LET write(nextState) ==
            LET kept == [document \in Range(documents) |->
                            document.docId \in {nextState[i].id : i \in 1..Len(nextState)}]
            IN  upsertAll(Filter(documents, kept), ownerId, nextState)
        return(stored) == [stored |-> stored, worlds |-> listWorldsByOwner(stored)]
    IN  IF changes = <<>> THEN return(documents)
        ELSE return(write(applyWorldChanges(listWorldsByOwner(documents), changes)))

\* A value of a request body: an array is [array |-> its elements], an object
\* is the record of its fields, any other value v (null, a string, a number) is
\* [json |-> v].
\* A change list that leaves every element in
parseChangesUnfiltered(raw) == IF "array" \in DOMAIN raw THEN raw.array ELSE <<>>

parseChanges(raw) ==
    IF "array" \notin DOMAIN raw THEN <<>>
    ELSE LET supported == [item \in Range(raw.array) |->
                              /\ "json" \notin DOMAIN item
                              /\ Get(item, "type", "") \in SUPPORTED_CHANGE_TYPES]
         IN  Filter(raw.array, supported)

serializeWorld(world) ==
    Spread(world, [activity |-> [i \in 1..Len(world.activity) |->
                       Spread(world.activity[i],
                              [timestamp |-> Get(world.activity[i], "timestamp", Now)])]])

serializeWorlds(list) == [i \in 1..Len(list) |-> serializeWorld(list[i])]

\* -------------------------------------------------------------------------
\* The Home component: state of the sync client
\* -------------------------------------------------------------------------
VARIABLES
    mounted,      \* the mount effects have run
    worlds,       \* worldsRef.current / the worlds state
    pending,      \* pendingChangesRef.current
    saveStatus,   \* 'saved' | 'saving' | 'offline' | 'syncing'
    isOnline,     \* the isOnline state
    flushTimer,   \* <<>>, or <<[isOnline |-> b]>>: the armed debounce timer with the
                  \* isOnline its callback's flushPendingChanges closed over
    cache,        \* localStorage[CACHE_STORAGE_KEY]: <<>> or <<CachedState>>
    inflight,     \* PATCH requests awaiting their response, oldest first
    boot,         \* the bootstrap GET of fetchWorlds
    collection,   \* the server's stored worlds of the owner
    nextId,       \* suffix of the next generateId
    mutations,    \* number of local mutations so far
    failures,     \* number of transport failures so far
    serverLog,    \* history: every change the server's reducer has applied, in order
    acked,        \* history: changes of batches whose flush succeeded
    made,         \* history: every change local mutations have queued, in order
    last          \* history: the handler of the client that ran last, and the
                  \* request it settled (FlushOk, FlushFail)

vars == <<mounted, worlds, pending, saveStatus, isOnline, flushTimer, cache, inflight,
          boot, collection, nextId, mutations, failures, serverLog, acked, made, last>>

\* getCurrentUserCollaborator(role) without a signed-in user
getCurrentUserCollaborator(role) ==
    [id |-> OwnerUid, name |-> "Storyteller", email |-> "storyteller@example.com",
     role |-> role, avatarColor |-> getAvatarColor(OwnerUid)]

buildActivityEntry(action, target, context, n) ==
    [id |-> generateId("activity", n), action |-> action, target |-> target,
     context |-> context, actorId |-> OwnerUid, actorName |-> "Storyteller",
     timestamp |-> Now]

CachedState(ws, changes) == [worlds |-> ws, pendingChanges |-> changes, timestamp |-> Now]

\* loadCachedState: <<>> for null
loadCachedState(stored) ==
    IF stored = <<>> THEN <<>>
    ELSE IF "worlds" \notin DOMAIN stored[1] THEN <<>>
    ELSE <<[worlds |-> normalizeWorlds(stored[1].worlds),
            pendingChanges |-> Get(stored[1], "pendingChanges", <<>>),
            timestamp |-> Get(stored[1], "timestamp", Now)]>>

\* What an earlier session left behind: a world, a page added to it that was
\* never sent, and the two changes handleAddPage queued for it.
EarlierWorld ==
    [id |-> "world-a", name |-> "New World 1", pages |-> <<>>, ownerId |-> OwnerUid,
     collaborators |-> <<getCurrentUserCollaborator("Owner")>>,
     activity |-> <<[id |-> "activity-a", action |-> "create", target |-> "New World 1",
                     context |-> "Created world", actorId |-> OwnerUid,
                     actorName |-> "Storyteller", timestamp |-> Now]>>]

EarlierPage == createPage("Untitled page", "page-b")

EarlierEntry ==
    [id |-> "activity-b", action |-> "create", target |-> "Untitled page",
     context |-> "Added to the index", actorId |-> OwnerUid,
     actorName |-> "Storyteller", timestamp |-> Now]

EarlierChanges ==
    <<[type |-> "insertPage", worldId |-> "world-a", parentId |-> NoId, page |-> EarlierPage],
      [type |-> "appendActivity", worldId |-> "world-a", entries |-> <<EarlierEntry>>]>>

\* Browser storage and server storage when the component is constructed.
Situations ==
    { [cache |-> <<>>,
       collection |-> upsertWorld(<<>>, FALLBACK_USER_ID, EarlierWorld)],
      [cache |-> <<CachedState(applyWorldChanges(<<EarlierWorld>>, EarlierChanges),
                               EarlierChanges)>>,
       collection |-> upsertWorld(<<>>, FALLBACK_USER_ID, EarlierWorld)],
      \* the same cache, and a server whose world another session has deleted
      [cache |-> <<CachedState(applyWorldChanges(<<EarlierWorld>>, EarlierChanges),
                               EarlierChanges)>>,
       collection |-> <<>>] }

Init ==
    /\ mounted = FALSE
    /\ worlds = normalizeWorlds(initialWorlds)
    /\ pending = <<>>
    /\ saveStatus = "syncing"
    /\ isOnline = TRUE
    /\ flushTimer = <<>>
    /\ \E situation \in Situations :
          /\ cache = situation.cache
          /\ collection = situation.collection
    /\ inflight = <<>>
    /\ boot = [stage |-> "idle", cached |-> FALSE, data |-> <<>>]
    /\ nextId = 1
    /\ mutations = 0
    /\ failures = 0
    /\ serverLog = <<>>
    /\ acked = {}
    /\ made = <<>>
    /\ last = [op |-> "init", arg |-> <<>>]

\* -------------------------------------------------------------------------
\* flushPendingChanges, up to its await: the status it sets and the requests it
\* sends (none or one), for the queue it finds and the isOnline it closed over.
\* -------------------------------------------------------------------------
flushPendingChanges(queue, online) ==
    IF queue = <<>> THEN [saveStatus |-> "saved", requests |-> <<>>]
    ELSE IF ~online THEN [saveStatus |-> "offline", requests |-> <<>>]
    ELSE [saveStatus |-> "syncing",
          requests |-> <<[batch |-> queue, queued |-> <<>>]>>]

RoomFor(flush) == Len(inflight) + Len(flush.requests) <= MaxInflight

\* The effect of a call of flushPendingChanges on the status and on the requests
\* in flight.
Send(flush) ==
    /\ RoomFor(flush)
    /\ saveStatus' = flush.saveStatus
    /\ inflight' = inflight \o flush.requests

\* queueChanges without the clearTimeout of the timer flushTimerRef holds
queueChangesKeepingTimer(changes) ==
    /\ changes # <<>>
    /\ pending' = pending \o changes
    /\ saveStatus' = IF isOnline THEN "saving" ELSE "offline"
    /\ flushTimer' = Append(flushTimer, [isOnline |-> isOnline])
    /\ inflight' = [i \in 1..Len(inflight) |->
                       [inflight[i] EXCEPT !.queued = @ \o changes]]

\* queueChanges: the queue, the status and the timers after it (the timer
\* flushTimerRef holds, the last one armed, is cleared and a new one is armed);
\* the history field `queued` of every request in flight records the changes.
queueChanges(changes) ==
    /\ changes # <<>>
    /\ pending' = pending \o changes
    /\ saveStatus' = IF isOnline THEN "saving" ELSE "offline"
    /\ flushTimer' = Append(SubSeq(flushTimer, 1, Len(flushTimer) - 1),
                            [isOnline |-> isOnline])
    /\ inflight' = [i \in 1..Len(inflight) |->
                       [inflight[i] EXCEPT !.queued = @ \o changes]]

\* -------------------------------------------------------------------------
\* Mount: the bootstrap effect up to its fetch, the online effect and the
\* listener effect (setIsOnline(navigator.onLine)), in the order they run.
\* -------------------------------------------------------------------------
Mount(navigatorOnLine) ==
    /\ ~mounted
    /\ LET effects(cached) ==
               LET adopt == cached # <<>> /\ cached[1].worlds # <<>>
               IN  /\ pending' = IF adopt THEN cached[1].pendingChanges ELSE pending
                   /\ worlds' = IF adopt THEN cached[1].worlds ELSE worlds
                   /\ cache' = IF adopt THEN <<CachedState(worlds', pending')>> ELSE cache
                   /\ boot' = [stage |-> "fetching", cached |-> adopt, data |-> <<>>]
                   /\ Send(IF isOnline /\ pending' # <<>>
                           THEN flushPendingChanges(pending', isOnline)
                           ELSE [saveStatus |-> IF ~adopt THEN saveStatus
                                                ELSE IF pending' # <<>> THEN "offline"
                                                ELSE "saved",
                                 requests |-> <<>>])
       IN  effects(loadCachedState(cache))
    /\ mounted' = TRUE
    /\ isOnline' = navigatorOnLine
    /\ last' = [op |-> "mount", arg |-> loadCachedState(cache)]
    /\ made' = pending'
    /\ UNCHANGED <<flushTimer, collection, nextId, mutations, failures, serverLog, acked>>

\* -------------------------------------------------------------------------
\* fetchWorlds: the server's GET handler, then the reply or the failure
\* -------------------------------------------------------------------------
BootServe ==
    /\ boot.stage = "fetching"
    /\ boot' = [boot EXCEPT !.stage = "replied",
                            !.data = serializeWorlds(listWorldsByOwner(collection))]
    /\ UNCHANGED <<mounted, worlds, pending, saveStatus, isOnline, flushTimer, cache,
                   inflight, collection, nextId, mutations, failures, serverLog, acked, made, last>>

\* fetchWorlds adopting the fetched list without replaying the queue
BootOkWithoutReplay ==
    /\ boot.stage = "replied"
    /\ worlds' = normalizeWorlds(boot.data)
    /\ cache' = <<CachedState(worlds', pending)>>
    /\ saveStatus' = IF pending # <<>> THEN "saving" ELSE "saved"
    /\ boot' = [boot EXCEPT !.stage = "done"]
    /\ last' = [op |-> "bootOk", arg |-> <<>>]
    /\ UNCHANGED <<mounted, pending, isOnline, flushTimer, inflight, collection, nextId,
                   mutations, failures, serverLog, acked, made>>

BootOk ==
    /\ boot.stage = "replied"
    /\ LET merged(serverWorlds) ==
               IF pending # <<>> THEN applyWorldChanges(serverWorlds, pending)
               ELSE serverWorlds
       IN  worlds' = merged(normalizeWorlds(boot.data))
    /\ cache' = <<CachedState(worlds', pending)>>
    /\ saveStatus' = IF pending # <<>> THEN "saving" ELSE "saved"
    /\ boot' = [boot EXCEPT !.stage = "done"]
    /\ last' = [op |-> "bootOk", arg |-> <<>>]
    /\ UNCHANGED <<mounted, pending, isOnline, flushTimer, inflight, collection, nextId,
                   mutations, failures, serverLog, acked, made>>

BootFail ==
    /\ boot.stage \in {"fetching", "replied"}
    /\ failures < MaxFailures
    /\ failures' = failures + 1
    /\ IF ~boot.cached
       THEN LET fallback == normalizeWorlds(initialWorlds)
            IN  /\ pending' = <<>>
                /\ worlds' = fallback
                /\ cache' = <<CachedState(fallback, <<>>)>>
                /\ saveStatus' = "saved"
       ELSE /\ saveStatus' = IF pending # <<>> THEN "offline" ELSE "saved"
            /\ UNCHANGED <<pending, worlds, cache>>
    /\ boot' = [boot EXCEPT !.stage = "done"]
    /\ last' = [op |-> "bootFail", arg |-> <<>>]
    /\ UNCHANGED <<mounted, isOnline, flushTimer, inflight, collection, nextId, mutations,
                   serverLog, acked, made>>

\* -------------------------------------------------------------------------
\* Local mutations.  The handler, the render that runs its commitWorldsUpdate
\* updater and queueChanges are one step; afterwards the cache holds the new
\* world list and the new queue.
\* -------------------------------------------------------------------------
\* activeWorld is any world of the list (handleSelectWorld selects it); parentId
\* is absent (NoId) or the id of a page of the active world.  `last` keeps the
\* changes of the mutations that followed one another with nothing in between.
handleAddPageWithin(limit, active, parentId) ==
    /\ mounted
    /\ mutations < limit
    /\ LET activeWorld == worlds[active]
           newPage == createPage(IF parentId # NoId THEN "Untitled sub-page"
                                 ELSE "Untitled page", generateId("page", nextId))
           parent == IF parentId # NoId THEN findPageInTree(activeWorld.pages, parentId)
                     ELSE <<>>
           parentTitle == IF parent # <<>> THEN parent[1].title ELSE ""
           activityEntry == buildActivityEntry("create", newPage.title,
                                IF parentTitle # "" THEN "Added beneath " \o parentTitle
                                ELSE "Added to the index", nextId + 1)
           changes == <<[type |-> "insertPage", worldId |-> activeWorld.id,
                         parentId |-> parentId, page |-> newPage],
                        [type |-> "appendActivity", worldId |-> activeWorld.id,
                         entries |-> <<activityEntry>>]>>
       IN  /\ worlds' = [i \in 1..Len(worlds) |->
                            IF worlds[i].id = activeWorld.id
                            THEN Spread(worlds[i],
                                     [pages |-> addPageToTree(worlds[i].pages, parentId, newPage),
                                      activity |-> appendActivity(worlds[i].activity,
                                                                  activityEntry)])
                            ELSE worlds[i]]
           /\ queueChanges(changes)
           /\ cache' = <<CachedState(worlds', pending')>>
           /\ made' = made \o changes
           /\ last' = [op |-> "mutate",
                       arg |-> (IF last.op = "mutate" THEN last.arg ELSE <<>>) \o changes,
                       handler |-> "handleAddPage", input |-> <<activeWorld.id, parentId>>,
                       before |-> worlds, queued |-> changes]
    /\ nextId' = nextId + 2
    /\ mutations' = mutations + 1
    /\ UNCHANGED <<mounted, isOnline, boot, collection, failures, serverLog, acked>>

handleAddPage(active, parentId) == handleAddPageWithin(MaxMutations, active, parentId)

createEmptyWorld(name, n) ==
    [id |-> generateId("world", n), name |-> name, pages |-> <<>>,
     ownerId |-> getCurrentUserCollaborator("Owner").id,
     collaborators |-> <<getCurrentUserCollaborator("Owner")>>,
     activity |-> <<buildActivityEntry("create", name, "Created world", n + 1)>>]

handleCreateWorldWithin(limit) ==
    /\ mounted
    /\ mutations < limit
    /\ LET create(newWorld) ==
               /\ worlds' = Append(worlds, newWorld)
               /\ queueChanges(<<[type |-> "createWorld", world |-> newWorld]>>)
               /\ made' = Append(made, [type |-> "createWorld", world |-> newWorld])
       IN  create(createEmptyWorld("New World " \o ToString(Len(worlds) + 1), nextId))
    /\ cache' = <<CachedState(worlds', pending')>>
    /\ last' = [op |-> "mutate",
                arg |-> Append(IF last.op = "mutate" THEN last.arg ELSE <<>>,
                               [type |-> "createWorld",
                                world |-> createEmptyWorld("New World "
                                              \o ToString(Len(worlds) + 1), nextId)]),
                handler |-> "handleCreateWorld", input |-> <<>>,
                before |-> worlds,
                queued |-> <<[type |-> "createWorld",
                              world |-> createEmptyWorld("New World "
                                            \o ToString(Len(worlds) + 1), nextId)]>>]
    /\ nextId' = nextId + 2
    /\ mutations' = mutations + 1
    /\ UNCHANGED <<mounted, isOnline, boot, collection, failures, serverLog, acked>>

handleCreateWorld == handleCreateWorldWithin(MaxMutations)

\* -------------------------------------------------------------------------
\* The three callers of flushPendingChanges after mount
\* -------------------------------------------------------------------------
\* The debounce timer's callback, with the flushPendingChanges it closed over.
\* `last` keeps the timer that fired and the number of requests in flight then.
TimerFire ==
    /\ flushTimer # <<>>
    /\ Send(flushPendingChanges(pending, flushTimer[1].isOnline))
    /\ flushTimer' = Tail(flushTimer)
    /\ last' = [op |-> "timer",
                arg |-> <<[isOnline |-> flushTimer[1].isOnline, inflight |-> Len(inflight)]>>]
    /\ UNCHANGED <<mounted, worlds, pending, isOnline, cache, boot, collection, nextId,
                   mutations, failures, serverLog, acked, made>>

\* handleManualSync without the clearTimeout
handleManualSyncKeepingTimer ==
    /\ mounted
    /\ Send(flushPendingChanges(pending, isOnline))
    /\ last' = [op |-> "manual", arg |-> flushTimer]
    /\ UNCHANGED <<mounted, worlds, pending, isOnline, flushTimer, cache, boot, collection,
                   nextId, mutations, failures, serverLog, acked, made>>

\* `last` keeps the timer the handler cancelled.
handleManualSync ==
    /\ mounted
    /\ Send(flushPendingChanges(pending, isOnline))
    /\ flushTimer' = <<>>
    /\ last' = [op |-> "manual", arg |-> flushTimer]
    /\ UNCHANGED <<mounted, worlds, pending, isOnline, cache, boot, collection, nextId,
                   mutations, failures, serverLog, acked, made>>

\* The 'online' event without the online effect
GoOnlineWithoutEffect ==
    /\ mounted
    /\ ~isOnline
    /\ isOnline' = TRUE
    /\ last' = [op |-> "online", arg |-> <<>>]
    /\ UNCHANGED <<mounted, worlds, pending, saveStatus, flushTimer, cache, inflight, boot,
                   collection, nextId, mutations, failures, serverLog, acked, made>>

\* The 'online' event: updateStatus, the render, then the online effect.
GoOnline ==
    /\ mounted
    /\ ~isOnline
    /\ isOnline' = TRUE
    /\ Send(IF pending # <<>> THEN flushPendingChanges(pending, TRUE)
            ELSE [saveStatus |-> saveStatus, requests |-> <<>>])
    /\ last' = [op |-> "online", arg |-> <<>>]
    /\ UNCHANGED <<mounted, worlds, pending, flushTimer, cache, boot, collection, nextId,
                   mutations, failures, serverLog, acked, made>>

\* The 'offline' event: the online effect runs and does nothing.
GoOffline ==
    /\ mounted
    /\ isOnline
    /\ isOnline' = FALSE
    /\ last' = [op |-> "offline", arg |-> <<>>]
    /\ UNCHANGED <<mounted, worlds, pending, saveStatus, flushTimer, cache, inflight, boot,
                   collection, nextId, mutations, failures, serverLog, acked, made>>

\* -------------------------------------------------------------------------
\* A PATCH request settles.  The server's handler (parseChanges,
\* syncWorldChanges, serializeWorld) runs in the step that delivers, or loses,
\* its reply: between the send and that step the request is in flight.
\* -------------------------------------------------------------------------
Without(requests, i) == SubSeq(requests, 1, i - 1) \o SubSeq(requests, i + 1, Len(requests))

\* PATCH of app/api/worlds/sync/route.ts: the stored documents afterwards, the
\* reply's data and the changes the reducer was given.
PATCH(body) ==
    LET reply(changes) ==
            LET respond(result) == [stored |-> result.stored,
                                    data |-> serializeWorlds(result.worlds),
                                    applied |-> changes]
            IN  respond(syncWorldChanges(collection, FALLBACK_USER_ID, changes))
    IN  reply(parseChanges(Get(body, "changes", [array |-> <<>>])))

\* The try block without `pendingChangesRef.current = []`
FlushOkKeepingQueue(i) ==
    /\ LET adopt(response) ==
               /\ collection' = response.stored
               /\ serverLog' = serverLog \o response.applied
               /\ worlds' = normalizeWorlds(response.data)
               /\ last' = [op |-> "flushOk",
                           arg |-> <<Spread(inflight[i], [data |-> response.data])>>]
       IN  adopt(PATCH([changes |-> [array |-> inflight[i].batch]]))
    /\ cache' = <<CachedState(worlds', pending)>>
    /\ saveStatus' = "saved"
    /\ inflight' = Without(inflight, i)
    /\ acked' = acked \cup {inflight[i].batch[k] : k \in 1..Len(inflight[i].batch)}
    /\ UNCHANGED <<mounted, pending, isOnline, flushTimer, boot, nextId, mutations,
                   failures, made>>

\* The try block after the await, with response.ok
FlushOk(i) ==
    /\ LET adopt(response) ==
               /\ collection' = response.stored
               /\ serverLog' = serverLog \o response.applied
               /\ worlds' = normalizeWorlds(response.data)
               /\ last' = [op |-> "flushOk",
                           arg |-> <<Spread(inflight[i], [data |-> response.data])>>]
       IN  adopt(PATCH([changes |-> [array |-> inflight[i].batch]]))
    /\ pending' = <<>>
    /\ cache' = <<CachedState(worlds', <<>>)>>
    /\ saveStatus' = "saved"
    /\ inflight' = Without(inflight, i)
    /\ acked' = acked \cup {inflight[i].batch[k] : k \in 1..Len(inflight[i].batch)}
    /\ UNCHANGED <<mounted, isOnline, flushTimer, boot, nextId, mutations, failures, made>>

\* The catch block, while fewer than `limit` transport failures have happened:
\* the request never reached the server, or it did and the reply was lost.
FlushFailWithin(limit, i, reached) ==
    /\ failures < limit
    /\ failures' = failures + 1
    /\ IF reached
       THEN LET lose(response) == /\ collection' = response.stored
                                  /\ serverLog' = serverLog \o response.applied
            IN  lose(PATCH([changes |-> [array |-> inflight[i].batch]]))
       ELSE UNCHANGED <<collection, serverLog>>
    /\ pending' = inflight[i].batch \o pending
    /\ saveStatus' = "offline"
    /\ inflight' = Without(inflight, i)
    /\ last' = [op |-> "flushFail", arg |-> <<inflight[i]>>]
    /\ UNCHANGED <<mounted, worlds, isOnline, flushTimer, cache, boot, nextId, mutations,
                   acked, made>>

FlushFail(i, reached) == FlushFailWithin(MaxFailures, i, reached)

Next ==
    \/ \E navigatorOnLine \in BOOLEAN : Mount(navigatorOnLine)
    \/ BootServe
    \/ BootOk
    \/ BootFail
    \/ \E active \in 1..Len(worlds) :
          \E parentId \in {NoId} \cup {flattenPages(worlds[active].pages)[k].id :
                                          k \in 1..Len(flattenPages(worlds[active].pages))} :
             handleAddPage(active, parentId)
    \/ TimerFire
    \/ handleManualSync
    \/ GoOnline
    \/ GoOffline
    \/ \E i \in 1..Len(inflight) : FlushOk(i)
    \/ \E i \in 1..Len(inflight) : \E reached \in BOOLEAN : FlushFail(i, reached)

Spec == Init /\ [][Next]_vars

\* -------------------------------------------------------------------------
\* The retry scenario: the client alone with its server, one request at a
\* time, the bootstrap GET answered, and up to MaxRetries PATCH requests that
\* fail before one succeeds.
\* -------------------------------------------------------------------------
OneAtATime == Len(inflight') <= 1

RetryNext ==
    \/ \E navigatorOnLine \in BOOLEAN : Mount(navigatorOnLine) /\ OneAtATime
    \/ BootServe
    \/ BootOk
    \/ \E active \in 1..Len(worlds) : handleAddPage(active, NoId)
    \/ TimerFire /\ OneAtATime
    \/ handleManualSync /\ OneAtATime
    \/ GoOnline /\ OneAtATime
    \/ GoOffline
    \/ \E i \in 1..Len(inflight) : FlushOk(i)
    \/ \E i \in 1..Len(inflight) :
          \E reached \in BOOLEAN : FlushFailWithin(MaxRetries, i, reached)

RetrySpec == Init /\ [][RetryNext]_vars

\* -------------------------------------------------------------------------
\* The bootstrap with the user creating a world or adding a page meanwhile:
\* connectivity does not change and no manual sync is started.
\* -------------------------------------------------------------------------
BootNext ==
    \/ \E navigatorOnLine \in BOOLEAN : Mount(navigatorOnLine)
    \/ BootServe
    \/ BootOk
    \/ BootFail
    \/ handleCreateWorld
    \/ \E active \in 1..Len(worlds) : handleAddPage(active, NoId)
    \/ TimerFire
    \/ \E i \in 1..Len(inflight) : FlushOk(i)
    \/ \E i \in 1..Len(inflight) : \E reached \in BOOLEAN : FlushFail(i, reached)

BootSpec == Init /\ [][BootNext]_vars

\* -------------------------------------------------------------------------
\* A burst: up to MaxBurst mutations of a client whose network and server
\* answer, with the debounce timer as the only caller of the flush after mount.
\* -------------------------------------------------------------------------
BurstNext ==
    \/ \E navigatorOnLine \in BOOLEAN : Mount(navigatorOnLine)
    \/ BootServe
    \/ BootOk
    \/ \E active \in 1..Len(worlds) : handleAddPageWithin(MaxBurst, active, NoId)
    \/ TimerFire
    \/ \E i \in 1..Len(inflight) : FlushOk(i)

BurstSpec == Init /\ [][BurstNext]_vars

\* -------------------------------------------------------------------------
\* Scheduling: the mount effects run, an armed timer fires, the bootstrap GET
\* is served and answered, and a request in flight is answered once the
\* transport has stopped failing.  What the user and the network's connectivity
\* do is not scheduled.
\* -------------------------------------------------------------------------
\* Weak fairness of BootOk: it is enabled exactly while the GET's reply waits.
BootFairness ==
    \/ []<>(boot.stage # "replied")
    \/ []<><<BootOk>>_vars

\* Weak fairness of FlushOk: it is enabled exactly while a request is in flight.
ReplyFairness ==
    \/ []<>(inflight = <<>>)
    \/ []<><<\E i \in 1..Len(inflight) : FlushOk(i)>>_vars

LiveSpec ==
    /\ Spec
    /\ WF_vars(\E navigatorOnLine \in BOOLEAN : Mount(navigatorOnLine))
    /\ WF_vars(BootServe)
    /\ WF_vars(TimerFire)
    /\ BootFairness
    /\ ReplyFairness

\* =========================================================================
\* The reducer on its own: applyWorldChanges(W, C) for a world list W and a
\* change list C that grows by one change per step.  `last` holds the call's
\* arguments <<W, C>>, `worlds` the list the loop has built so far; the sync
\* client's other variables stay as constructed.
\* =========================================================================
SamplePages ==
    <<[id |-> "page-1", title |-> "One", content |-> "", favorite |-> FALSE,
       children |-> <<[id |-> "page-2", title |-> "Two", content |-> "two",
                       favorite |-> TRUE, children |-> <<>>]>>],
      [id |-> "page-3", title |-> "Three", content |-> "", favorite |-> FALSE,
       children |-> <<>>]>>

SampleEntry(n) ==
    [id |-> generateId("activity", n), action |-> "update", target |-> "One",
     context |-> "Edited", actorId |-> OwnerUid, actorName |-> "Storyteller",
     timestamp |-> Now]

SampleWorld(id, pages, entries) ==
    [id |-> id, name |-> "World " \o id, pages |-> pages, ownerId |-> OwnerUid,
     collaborators |-> <<getCurrentUserCollaborator("Owner")>>,
     activity |-> [n \in 1..entries |-> SampleEntry(n)]]

SampleWorldLists ==
    { <<>>,
      <<SampleWorld("world-a", SamplePages, 1)>>,
      <<SampleWorld("world-c", <<>>, 0),
        SampleWorld("world-a", SamplePages, ACTIVITY_LIMIT - 1)>> }

SampleChanges ==
    {[type |-> "createWorld", world |-> SampleWorld("world-b", <<>>, 1)],
     [type |-> "createWorld", world |-> SampleWorld("world-a", <<>>, 0)],
     [type |-> "renameWorld", worldId |-> "world-a"]}
    \cup {[type |-> "updateWorld", worldId |-> w, data |-> [name |-> "Renamed"]] :
             w \in {"world-a", "world-x"}}
    \cup {[type |-> "deleteWorld", worldId |-> w] : w \in {"world-a", "world-x"}}
    \cup {[type |-> "insertPage", worldId |-> w, parentId |-> parent,
            page |-> createPage("Untitled page", "page-9")] :
             w \in {"world-a", "world-x"}, parent \in {NoId, "page-2", "page-x"}}
    \cup {[type |-> "updatePage", worldId |-> "world-a", pageId |-> page,
            data |-> [title |-> "Retitled"]] : page \in {"page-2", "page-x"}}
    \cup {[type |-> "removePage", worldId |-> w, pageId |-> page] :
             w \in {"world-a", "world-x"}, page \in {"page-1", "page-9"}}
    \cup {[type |-> "movePage", worldId |-> "world-a", pageId |-> "page-2",
            targetId |-> target, position |-> position] :
             target \in {"page-3", "page-x"}, position \in {"before", "after"}}
    \cup {[type |-> "appendActivity", worldId |-> "world-a",
            entries |-> [n \in 1..entries |-> SampleEntry(50 + n)]] : entries \in 0..2}
    \cup {[type |-> "appendActivity", worldId |-> w, entries |-> <<SampleEntry(60)>>] :
             w \in {"world-a", "world-x"}}
    \cup {[type |-> "setCollaborators", worldId |-> "world-a", collaborators |-> <<>>]}

ReducerInit ==
    /\ \E W \in SampleWorldLists :
          /\ worlds = W
          /\ last = [op |-> "applyWorldChanges", arg |-> <<W, <<>>>>]
    /\ mounted = FALSE
    /\ pending = <<>>
    /\ saveStatus = "syncing"
    /\ isOnline = TRUE
    /\ flushTimer = <<>>
    /\ cache = <<>>
    /\ collection = <<>>
    /\ inflight = <<>>
    /\ boot = [stage |-> "idle", cached |-> FALSE, data |-> <<>>]
    /\ nextId = 1
    /\ mutations = 0
    /\ failures = 0
    /\ serverLog = <<>>
    /\ acked = {}
    /\ made = <<>>

\* One more iteration of the loop: the call is now applyWorldChanges(W, C ++ <<change>>).
Reduce(change) ==
    /\ Len(last.arg[2]) < MaxChanges
    /\ worlds' = applyWorldChanges(worlds, <<change>>)
    /\ last' = [last EXCEPT !.arg[2] = Append(@, change)]
    /\ UNCHANGED <<mounted, pending, saveStatus, isOnline, flushTimer, cache, inflight, boot,
                   collection, nextId, mutations, failures, serverLog, acked, made>>

ReducerNext == \E change \in SampleChanges : Reduce(change)

ReducerSpec == ReducerInit /\ [][ReducerNext]_vars

\* =========================================================================
\* The page-tree functions on their own: each step calls one of them on the
\* forest the previous call returned.  `last` holds the call: its name, its
\* arguments <<nodes, id, page>> and what it returned, `mutations` counts the
\* calls; the sync client's other variables stay as constructed.
\* =========================================================================
\* The forest a batch [insertPage page-7 at the root, insertPage page-9 under
\* page-7] leaves when it is applied twice to an empty forest, as happens when
\* a flush is sent again after its reply was lost: two nodes share an id.
ReplayedPages ==
    LET batch(F) == addPageToTree(addPageToTree(F, NoId, createPage("Untitled page", "page-7")),
                                  "page-7", createPage("Nine", "page-9"))
    IN  batch(batch(<<>>))

SampleForests == {<<>>, SamplePages, ReplayedPages}

\* A leaf, and a page that brings a child along
SampleNewPages ==
    {createPage("Untitled page", "page-7"),
     [id |-> "page-8", title |-> "Eight", content |-> "eight", favorite |-> TRUE,
      children |-> <<createPage("Nine", "page-9")>>]}

SampleIds == {NoId, "page-1", "page-2", "page-3", "page-7", "page-8", "page-9", "page-x"}

\* The forest the last call returned
Forest == last.result.nodes

\* generateId never repeats an id, so a new page's ids are not in the forest
Fresh(page) ==
    /\ \A i \in 1..Len(flattenPages(<<page>>)) : \A j \in 1..Len(flattenPages(Forest)) :
          flattenPages(<<page>>)[i].id # flattenPages(Forest)[j].id
    /\ Len(flattenPages(Forest)) + Len(flattenPages(<<page>>)) <= MaxNodes

TreeInit ==
    /\ \E F \in SampleForests :
          last = [op |-> "clonePageTree", arg |-> <<F, NoId, <<>>>>,
                  result |-> [nodes |-> clonePageTree(F)]]
    /\ worlds = <<>>
    /\ mounted = FALSE
    /\ pending = <<>>
    /\ saveStatus = "syncing"
    /\ isOnline = TRUE
    /\ flushTimer = <<>>
    /\ cache = <<>>
    /\ collection = <<>>
    /\ inflight = <<>>
    /\ boot = [stage |-> "idle", cached |-> FALSE, data |-> <<>>]
    /\ nextId = 1
    /\ mutations = 0
    /\ failures = 0
    /\ serverLog = <<>>
    /\ acked = {}
    /\ made = <<>>

CallAddPageToTree(parentId, page) ==
    /\ mutations < MaxCalls
    /\ Fresh(page)
    /\ last' = [op |-> "addPageToTree", arg |-> <<Forest, parentId, page>>,
                result |-> [nodes |-> addPageToTree(Forest, parentId, page)]]
    /\ mutations' = mutations + 1
    /\ UNCHANGED <<mounted, worlds, pending, saveStatus, isOnline, flushTimer, cache,
                   inflight, boot, collection, nextId, failures, serverLog, acked, made>>

CallInsertPageBefore(targetId, page) ==
    /\ mutations < MaxCalls
    /\ Fresh(page)
    /\ last' = [op |-> "insertPageBefore", arg |-> <<Forest, targetId, page>>,
                result |-> insertPageBefore(Forest, targetId, page)]
    /\ mutations' = mutations + 1
    /\ UNCHANGED <<mounted, worlds, pending, saveStatus, isOnline, flushTimer, cache,
                   inflight, boot, collection, nextId, failures, serverLog, acked, made>>

CallInsertPageAfter(targetId, page) ==
    /\ mutations < MaxCalls
    /\ Fresh(page)
    /\ last' = [op |-> "insertPageAfter", arg |-> <<Forest, targetId, page>>,
                result |-> insertPageAfter(Forest, targetId, page)]
    /\ mutations' = mutations + 1
    /\ UNCHANGED <<mounted, worlds, pending, saveStatus, isOnline, flushTimer, cache,
                   inflight, boot, collection, nextId, failures, serverLog, acked, made>>

CallRemovePageFromTree(pageId) ==
    /\ mutations < MaxCalls
    /\ last' = [op |-> "removePageFromTree", arg |-> <<Forest, pageId, <<>>>>,
                result |-> removePageFromTree(Forest, pageId)]
    /\ mutations' = mutations + 1
    /\ UNCHANGED <<mounted, worlds, pending, saveStatus, isOnline, flushTimer, cache,
                   inflight, boot, collection, nextId, failures, serverLog, acked, made>>

CallMovePageBefore(pageId, targetId) ==
    /\ mutations < MaxCalls
    /\ last' = [op |-> "movePageBefore", arg |-> <<Forest, pageId, targetId>>,
                result |-> [nodes |-> movePageBefore(Forest, pageId, targetId)]]
    /\ mutations' = mutations + 1
    /\ UNCHANGED <<mounted, worlds, pending, saveStatus, isOnline, flushTimer, cache,
                   inflight, boot, collection, nextId, failures, serverLog, acked, made>>

CallClonePageTree ==
    /\ mutations < MaxCalls
    /\ last' = [op |-> "clonePageTree", arg |-> <<Forest, NoId, <<>>>>,
                result |-> [nodes |-> clonePageTree(Forest)]]
    /\ mutations' = mutations + 1
    /\ UNCHANGED <<mounted, worlds, pending, saveStatus, isOnline, flushTimer, cache,
                   inflight, boot, collection, nextId, failures, serverLog, acked, made>>

\* The data of an updatePage change: some of title, content and favorite
SamplePageData == {[title |-> "Retitled"], [content |-> "rewritten", favorite |-> TRUE]}

\* The updater is the one the updatePage change passes: {...page, ...data}.
CallUpdatePageInTree(pageId, data) ==
    /\ mutations < MaxCalls
    /\ last' = [op |-> "updatePageInTree", arg |-> <<Forest, pageId, data>>,
                result |-> [nodes |->
                    updatePageInTree(Forest, pageId,
                        [page \in {cloneNode(node) : node \in Range(flattenPages(Forest))} |->
                            Spread(page, data)])]]
    /\ mutations' = mutations + 1
    /\ UNCHANGED <<mounted, worlds, pending, saveStatus, isOnline, flushTimer, cache,
                   inflight, boot, collection, nextId, failures, serverLog, acked, made>>

\* A question about the forest: the forest itself goes on to the next call.
CallIsDescendant(parentId, candidateId) ==
    /\ mutations < MaxCalls
    /\ last' = [op |-> "isDescendant", arg |-> <<Forest, parentId, candidateId>>,
                result |-> [nodes |-> Forest,
                            value |-> isDescendant(Forest, parentId, candidateId)]]
    /\ mutations' = mutations + 1
    /\ UNCHANGED <<mounted, worlds, pending, saveStatus, isOnline, flushTimer, cache,
                   inflight, boot, collection, nextId, failures, serverLog, acked, made>>

TreeNext ==
    \/ \E id \in SampleIds, page \in SampleNewPages : CallAddPageToTree(id, page)
    \/ \E id \in SampleIds \ {NoId}, page \in SampleNewPages : CallInsertPageBefore(id, page)
    \/ \E id \in SampleIds \ {NoId}, page \in SampleNewPages : CallInsertPageAfter(id, page)
    \/ \E id \in SampleIds \ {NoId} : CallRemovePageFromTree(id)
    \/ \E id \in SampleIds \ {NoId}, target \in SampleIds \ {NoId} : CallMovePageBefore(id, target)
    \/ \E id \in SampleIds \ {NoId}, candidate \in SampleIds \ {NoId} :
          CallIsDescendant(id, candidate)
    \/ CallClonePageTree
    \/ \E id \in SampleIds \ {NoId}, data \in SamplePageData : CallUpdatePageInTree(id, data)

TreeSpec == TreeInit /\ [][TreeNext]_vars

\* -------------------------------------------------------------------------
\* The two moves on their own: movePageBefore, and the movePage change applied
\* by the reducer to a world that holds the forest.
\* -------------------------------------------------------------------------
CallMovePage(pageId, targetId, position) ==
    /\ mutations < MaxCalls
    /\ last' = [op |-> "movePage", arg |-> <<Forest, pageId, targetId, position>>,
                result |-> [nodes |->
                    applyWorldChanges(<<SampleWorld("world-a", Forest, 0)>>,
                        <<[type |-> "movePage", worldId |-> "world-a", pageId |-> pageId,
                           targetId |-> targetId, position |-> position]>>)[1].pages]]
    /\ mutations' = mutations + 1
    /\ UNCHANGED <<mounted, worlds, pending, saveStatus, isOnline, flushTimer, cache,
                   inflight, boot, collection, nextId, failures, serverLog, acked, made>>

MoveNext ==
    \/ \E id \in SampleIds \ {NoId}, target \in SampleIds \ {NoId} : CallMovePageBefore(id, target)
    \/ \E id \in SampleIds \ {NoId}, target \in SampleIds \ {NoId} :
          \E position \in {"before", "after"} : CallMovePage(id, target, position)

MoveSpec == TreeInit /\ [][MoveNext]_vars

\* =========================================================================
\* normalizeWorlds on its own: a partial world record, as the cache or the
\* server may deliver it, is normalized, and the result is normalized again.
\* `worlds` holds the list, `last` the call and its argument, `mutations`
\* counts the passes; the sync client's other variables stay as constructed.
\* =========================================================================
\* A part of a record that is left out
Absent == <<>>

SampleCollaborator(id, role) ==
    [id |-> id, name |-> "Name of " \o id, email |-> id \o "@example.com", role |-> role,
     avatarColor |-> getAvatarColor(id)]

SampleCollaboratorLists ==
    {<<>>,
     <<SampleCollaborator("user-1", "Editor")>>,
     <<SampleCollaborator("user-2", "Owner"), SampleCollaborator("user-1", "Editor")>>,
     <<SampleCollaborator("user-1", "Owner"), SampleCollaborator("user-2", "Owner")>>,
     <<SampleCollaborator("user-1", "Editor"), SampleCollaborator("user-1", "Viewer")>>,
     <<[name |-> "Partial"]>>}

SamplePartialWorlds ==
    {Spread(Spread(Spread(id, ownerId), collaborators), rest) :
        id \in {Absent, [id |-> Null], [id |-> ""], [id |-> "world-a"]},
        ownerId \in {Absent, [ownerId |-> Null], [ownerId |-> ""], [ownerId |-> "user-1"],
                     [ownerId |-> "user-3"]},
        collaborators \in {Absent} \cup {[collaborators |-> list] : list \in SampleCollaboratorLists},
        rest \in {Absent,
                  [name |-> "Partial world",
                   pages |-> <<[id |-> "page-1", title |-> "One", content |-> ""]>>,
                   activity |-> <<[id |-> "activity-1", action |-> "create"]>>]}}

NormalizeInit ==
    /\ \E W \in SamplePartialWorlds :
          /\ worlds = <<W>>
          /\ last = [op |-> "partial", arg |-> <<W>>]
    /\ mounted = FALSE
    /\ pending = <<>>
    /\ saveStatus = "syncing"
    /\ isOnline = TRUE
    /\ flushTimer = <<>>
    /\ cache = <<>>
    /\ collection = <<>>
    /\ inflight = <<>>
    /\ boot = [stage |-> "idle", cached |-> FALSE, data |-> <<>>]
    /\ nextId = 1
    /\ mutations = 0
    /\ failures = 0
    /\ serverLog = <<>>
    /\ acked = {}
    /\ made = <<>>

Normalize ==
    /\ mutations < MaxPasses
    /\ worlds' = normalizeWorlds(worlds)
    /\ last' = [op |-> "normalizeWorlds", arg |-> <<worlds>>]
    /\ mutations' = mutations + 1
    /\ UNCHANGED <<mounted, pending, saveStatus, isOnline, flushTimer, cache, inflight, boot,
                   collection, nextId, failures, serverLog, acked, made>>

NormalizeNext == Normalize

NormalizeSpec == NormalizeInit /\ [][NormalizeNext]_vars

\* =========================================================================
\* The server on its own: PATCH requests with any body arrive one after the
\* other.  `collection` holds the stored documents, `last` the request (the
\* documents it found and its body), the change list handed to
\* syncWorldChanges and the data of the reply; `mutations` counts the
\* requests.
\* =========================================================================
SampleCollections ==
    {upsertAll(<<>>, FALLBACK_USER_ID, list) : list \in SampleWorldLists}

SampleItems ==
    {[type |-> "createWorld", world |-> SampleWorld("world-b", <<>>, 1)],
     [type |-> "createWorld", world |-> SampleWorld("world-a", <<>>, 0)],
     [type |-> "updateWorld", worldId |-> "world-a", data |-> [name |-> "Renamed"]],
     [type |-> "deleteWorld", worldId |-> "world-a"],
     [type |-> "insertPage", worldId |-> "world-a", parentId |-> "page-2",
      page |-> createPage("Untitled page", "page-9")],
     [type |-> "setCollaborators", worldId |-> "world-a", collaborators |-> <<>>],
     [type |-> "renameWorld", worldId |-> "world-a"],
     [worldId |-> "world-a"],
     [json |-> "createWorld"]}

SampleBodies ==
    {Absent, [changes |-> [json |-> "null"]], [changes |-> [type |-> "deleteWorld",
                                                            worldId |-> "world-a"]]}
    \cup {[changes |-> [array |-> raw]] :
             raw \in {<<>>} \cup {<<item>> : item \in SampleItems}
                     \cup {<<first, second>> : first \in SampleItems, second \in SampleItems}}

ServerInit ==
    /\ \E documents \in SampleCollections :
          /\ collection = documents
          /\ last = [op |-> "GET", arg |-> <<documents, Absent>>, applied |-> <<>>,
                     data |-> serializeWorlds(listWorldsByOwner(documents))]
    /\ worlds = <<>>
    /\ mounted = FALSE
    /\ pending = <<>>
    /\ saveStatus = "syncing"
    /\ isOnline = TRUE
    /\ flushTimer = <<>>
    /\ cache = <<>>
    /\ inflight = <<>>
    /\ boot = [stage |-> "idle", cached |-> FALSE, data |-> <<>>]
    /\ nextId = 1
    /\ mutations = 0
    /\ failures = 0
    /\ serverLog = <<>>
    /\ acked = {}
    /\ made = <<>>

Serve(body) ==
    /\ mutations < MaxRequests
    /\ LET store(response) ==
               /\ collection' = response.stored
               /\ last' = [op |-> "PATCH", arg |-> <<collection, body>>,
                           applied |-> response.applied, data |-> response.data]
       IN  store(PATCH(body))
    /\ mutations' = mutations + 1
    /\ UNCHANGED <<mounted, worlds, pending, saveStatus, isOnline, flushTimer, cache,
                   inflight, boot, nextId, failures, serverLog, acked, made>>

ServerNext == \E body \in SampleBodies : Serve(body)

ServerSpec == ServerInit /\ [][ServerNext]_vars

\* -------------------------------------------------------------------------
\* Concurrent PATCH requests of one owner.  syncWorldChanges awaits every
\* repository call, so the calls of two requests interleave: a request in
\* `inflight` is [changes, pc, before, deletes, upserts, data] with pc one of
\* list, delete, upsert, return, done, failed; `before` keeps the documents it
\* listed, `data` the reply.  A repository call may raise, which the route
\* answers with status 500.
\* -------------------------------------------------------------------------
SampleBatches ==
    { <<>>,
      <<[type |-> "insertPage", worldId |-> "world-a", parentId |-> "page-2",
         page |-> createPage("Untitled page", "page-9")]>>,
      <<[type |-> "updatePage", worldId |-> "world-a", pageId |-> "page-3",
         data |-> [title |-> "Retitled"]]>>,
      <<[type |-> "createWorld", world |-> SampleWorld("world-b", <<>>, 1)],
        [type |-> "deleteWorld", worldId |-> "world-a"]>> }

SessionsInit ==
    /\ \E documents \in SampleCollections :
          /\ collection = documents
          /\ last = [op |-> "GET", arg |-> <<documents, Absent>>, applied |-> <<>>,
                     data |-> serializeWorlds(listWorldsByOwner(documents))]
    /\ worlds = <<>>
    /\ mounted = FALSE
    /\ pending = <<>>
    /\ saveStatus = "syncing"
    /\ isOnline = TRUE
    /\ flushTimer = <<>>
    /\ cache = <<>>
    /\ inflight = <<>>
    /\ boot = [stage |-> "idle", cached |-> FALSE, data |-> <<>>]
    /\ nextId = 1
    /\ mutations = 0
    /\ failures = 0
    /\ serverLog = <<>>
    /\ acked = {}
    /\ made = <<>>

\* PATCH up to the call of syncWorldChanges
Receive(body) ==
    /\ Len(inflight) < MaxSessions
    /\ inflight' = Append(inflight,
                       [changes |-> parseChanges(Get(body, "changes", [array |-> <<>>])),
                        pc |-> "list", before |-> <<>>, deletes |-> <<>>,
                        upserts |-> <<>>, data |-> <<>>])
    /\ UNCHANGED <<mounted, worlds, pending, saveStatus, isOnline, flushTimer, cache, boot,
                   collection, nextId, mutations, failures, serverLog, acked, made, last>>

\* The writes still to make: the deletes first, then the upserts
Remaining(deletes, upserts) ==
    IF deletes # <<>> THEN "delete" ELSE IF upserts # <<>> THEN "upsert" ELSE "return"

\* existing = await listWorldsByOwner(ownerId), and what follows up to the next
\* await: the early return, or nextState and the ids to delete
List(i) ==
    /\ inflight[i].pc = "list"
    /\ LET existing == listWorldsByOwner(collection)
           plan(nextState) ==
               LET gone == [world \in Range(existing) |->
                               world.id \notin {nextState[k].id : k \in 1..Len(nextState)}]
                   deletes == [k \in 1..Len(Filter(existing, gone)) |->
                                  Filter(existing, gone)[k].id]
               IN  [inflight[i] EXCEPT !.before = collection,
                                       !.deletes = deletes,
                                       !.upserts = nextState,
                                       !.pc = Remaining(deletes, nextState)]
       IN  inflight' = [inflight EXCEPT ![i] =
                           IF inflight[i].changes = <<>>
                           THEN [inflight[i] EXCEPT !.before = collection,
                                                    !.data = serializeWorlds(existing),
                                                    !.pc = "done"]
                           ELSE plan(applyWorldChanges(existing, inflight[i].changes))]
    /\ UNCHANGED <<mounted, worlds, pending, saveStatus, isOnline, flushTimer, cache, boot,
                   collection, nextId, mutations, failures, serverLog, acked, made, last>>

\* await deleteWorld(ownerId, id)
Delete(i) ==
    /\ inflight[i].pc = "delete"
    /\ collection' = deleteWorld(collection, FALLBACK_USER_ID, Head(inflight[i].deletes))
    /\ inflight' = [inflight EXCEPT ![i].deletes = Tail(@),
                                    ![i].pc = Remaining(Tail(inflight[i].deletes),
                                                        inflight[i].upserts)]
    /\ UNCHANGED <<mounted, worlds, pending, saveStatus, isOnline, flushTimer, cache, boot,
                   nextId, mutations, failures, serverLog, acked, made, last>>

\* await upsertWorld(ownerId, world)
Upsert(i) ==
    /\ inflight[i].pc = "upsert"
    /\ collection' = upsertWorld(collection, FALLBACK_USER_ID, Head(inflight[i].upserts))
    /\ inflight' = [inflight EXCEPT ![i].upserts = Tail(@),
                                    ![i].pc = Remaining(<<>>, Tail(inflight[i].upserts))]
    /\ UNCHANGED <<mounted, worlds, pending, saveStatus, isOnline, flushTimer, cache, boot,
                   nextId, mutations, failures, serverLog, acked, made, last>>

\* return listWorldsByOwner(ownerId), and the reply of PATCH
Return(i) ==
    /\ inflight[i].pc = "return"
    /\ inflight' = [inflight EXCEPT ![i].data = serializeWorlds(listWorldsByOwner(collection)),
                                    ![i].pc = "done"]
    /\ UNCHANGED <<mounted, worlds, pending, saveStatus, isOnline, flushTimer, cache, boot,
                   collection, nextId, mutations, failures, serverLog, acked, made, last>>

\* The repository call the request is about to make raises: the catch of PATCH
\* answers with handleError, and the writes made so far stay.
Raise(i) ==
    /\ inflight[i].pc \in {"delete", "upsert"}
    /\ failures < MaxFailures
    /\ failures' = failures + 1
    /\ inflight' = [inflight EXCEPT ![i].pc = "failed"]
    /\ UNCHANGED <<mounted, worlds, pending, saveStatus, isOnline, flushTimer, cache, boot,
                   collection, nextId, mutations, serverLog, acked, made, last>>

SessionsNext ==
    \/ \E batch \in SampleBatches : Receive([changes |-> [array |-> batch]])
    \/ \E i \in 1..Len(inflight) : List(i)
    \/ \E i \in 1..Len(inflight) : Delete(i)
    \/ \E i \in 1..Len(inflight) : Upsert(i)
    \/ \E i \in 1..Len(inflight) : Return(i)
    \/ \E i \in 1..Len(inflight) : Raise(i)

SessionsSpec == SessionsInit /\ [][SessionsNext]_vars

\* =========================================================================
\* The editing handlers of the Home component: a mounted client that has
\* adopted a world list, and up to MaxEdits local mutations of it.  Every
\* handler is one step: its commitWorldsUpdate, the render that runs the
\* updater, and its queueChanges.  `last` keeps the handler's name and inputs,
\* the world list before it and the changes it queued.
\* =========================================================================
RECURSIVE findParentId(_, _, _)
\* NoId for null
findParentId(nodes, pageId, parentId) ==
    IF nodes = <<>> THEN NoId
    ELSE IF Head(nodes).id = pageId THEN parentId
    ELSE LET candidate == findParentId(Head(nodes).children, pageId, Head(nodes).id)
         IN  IF candidate # NoId THEN candidate
             ELSE findParentId(Tail(nodes), pageId, parentId)

buildPageChange(worldId, pageId, data) ==
    [type |-> "updatePage", worldId |-> worldId, pageId |-> pageId,
     data |-> [f \in DOMAIN data \cap {"title", "content", "favorite"} |-> data[f]]]

\* The nodes an updater of updatePageInTree may be called with
Clones(pages) == {cloneNode(node) : node \in Range(flattenPages(pages))}

\* commitWorldsUpdate(updater) and queueChanges(changes) of one handler; ids is
\* the number of generateId calls the handler made.
commitAndQueue(call, nextWorlds, changes, ids) ==
    /\ mounted
    /\ mutations < MaxEdits
    /\ worlds' = nextWorlds
    /\ IF changes # <<>> THEN queueChanges(changes)
       ELSE UNCHANGED <<pending, saveStatus, flushTimer, inflight>>
    /\ cache' = <<CachedState(worlds', pending')>>
    /\ made' = made \o changes
    /\ last' = [op |-> "mutate",
                arg |-> (IF last.op = "mutate" THEN last.arg ELSE <<>>) \o changes,
                handler |-> call.handler, input |-> call.input,
                before |-> worlds, queued |-> changes]
    /\ nextId' = nextId + ids
    /\ mutations' = mutations + 1
    /\ UNCHANGED <<mounted, isOnline, boot, collection, failures, serverLog, acked>>

\* prev.map((world) => world.id === worldId ? updater(world) : world)
mapWorlds(prev, worldId, updater) ==
    [i \in 1..Len(prev) |-> IF prev[i].id = worldId THEN updater[prev[i]] ELSE prev[i]]

commitWorldRename(editingWorldId, worldNameDraft) ==
    LET nextName == IF worldNameDraft # "" THEN worldNameDraft ELSE "Untitled world"
    IN  commitAndQueue([handler |-> "commitWorldRename",
                        input |-> <<editingWorldId, worldNameDraft>>],
            mapWorlds(worlds, editingWorldId,
                      [world \in Range(worlds) |-> Spread(world, [name |-> nextName])]),
            <<[type |-> "updateWorld", worldId |-> editingWorldId,
               data |-> [name |-> nextName]]>>,
            0)

handleDuplicateWorld(worldId) ==
    LET found == Filter(worlds, [world \in Range(worlds) |-> world.id = worldId])
    IN  /\ found # <<>>
        /\ LET source == found[1]
               copyName == source.name \o " copy"
               duplicateBase == createEmptyWorld(copyName, nextId)
               duplicate ==
                   Spread(duplicateBase,
                          [pages |-> clonePageTree(source.pages),
                           activity |-> appendActivity(duplicateBase.activity,
                               buildActivityEntry("duplicate", source.name,
                                   "Copied from " \o source.name, nextId + 2))])
           IN  commitAndQueue([handler |-> "handleDuplicateWorld", input |-> <<worldId>>],
                   Append(worlds, duplicate),
                   <<[type |-> "createWorld", world |-> duplicate]>>,
                   3)

\* The updater assigns fallbackWorld.  React runs an updater during the setState
\* call when the component has no update pending, and during the next render
\* otherwise: `eager` says which, and the handler reads fallbackWorld right
\* after commitWorldsUpdate returns.
handleDeleteWorld(worldId, eager) ==
    LET remaining == Filter(worlds, [world \in Range(worlds) |-> world.id # worldId])
        fallbackWorld == createEmptyWorld("Untitled world", nextId)
    IN  commitAndQueue([handler |-> "handleDeleteWorld", input |-> <<worldId, eager>>],
            IF remaining = <<>> THEN <<fallbackWorld>> ELSE remaining,
            <<[type |-> "deleteWorld", worldId |-> worldId]>>
                \o (IF remaining = <<>> /\ eager
                    THEN <<[type |-> "createWorld", world |-> fallbackWorld]>> ELSE <<>>),
            2)

handleCommitPageRename(active, editingPageId, pageTitleDraft) ==
    LET activeWorld == worlds[active]
        nextTitle == IF pageTitleDraft # "" THEN pageTitleDraft ELSE "Untitled page"
        existingPage == findPageInTree(activeWorld.pages, editingPageId)
        previousTitle == IF existingPage # <<>> THEN existingPage[1].title
                         ELSE "Untitled page"
        shouldLog == previousTitle # nextTitle
        renameEntry == buildActivityEntry("update", nextTitle,
                           "Renamed from " \o previousTitle, nextId)
    IN  commitAndQueue([handler |-> "handleCommitPageRename",
                        input |-> <<activeWorld.id, editingPageId, pageTitleDraft>>],
            mapWorlds(worlds, activeWorld.id,
                [world \in Range(worlds) |->
                    Spread(world,
                        [pages |-> updatePageInTree(world.pages, editingPageId,
                                       [page \in Clones(world.pages) |->
                                           Spread(page, [title |-> nextTitle])]),
                         activity |-> IF shouldLog
                                      THEN appendActivity(world.activity, renameEntry)
                                      ELSE world.activity])]),
            <<[type |-> "updatePage", worldId |-> activeWorld.id,
               pageId |-> editingPageId, data |-> [title |-> nextTitle]]>>
                \o (IF shouldLog
                    THEN <<[type |-> "appendActivity", worldId |-> activeWorld.id,
                            entries |-> <<renameEntry>>]>>
                    ELSE <<>>),
            IF shouldLog THEN 1 ELSE 0)

\* A removal that asks neither who the current user is nor whom it removes
handleRemoveCollaboratorByAnyone(worldId, collaboratorId, eager) ==
    LET after(world) ==
            Filter(world.collaborators,
                   [member \in Range(world.collaborators) |-> member.id # collaboratorId])
        found == Filter(worlds, [world \in Range(worlds) |-> world.id = worldId])
    IN  /\ found # <<>>
        /\ commitAndQueue([handler |-> "handleRemoveCollaborator",
                           input |-> <<worldId, collaboratorId, eager>>],
               mapWorlds(worlds, worldId,
                   [world \in Range(worlds) |->
                       Spread(world, [collaborators |-> after(world)])]),
               <<[type |-> "setCollaborators", worldId |-> worldId,
                  collaborators |-> after(found[1])]>>,
               0)

\* The updater assigns collaboratorsAfterRemoval and removalEntry, which the
\* handler reads right after commitWorldsUpdate returns (`eager` as above).
handleRemoveCollaborator(worldId, collaboratorId, eager) ==
    LET currentUser == getCurrentUserCollaborator("Owner")
        applies == [world \in Range(worlds) |->
                       /\ world.id = worldId
                       /\ ~(collaboratorId = world.ownerId \/ world.ownerId # currentUser.id)
                       /\ \E member \in Range(world.collaborators) :
                             member.id = collaboratorId]
        removalEntry(world) ==
            buildActivityEntry("share",
                Filter(world.collaborators,
                       [member \in Range(world.collaborators) |->
                           member.id = collaboratorId])[1].name,
                "Removed from shared access", nextId)
        collaboratorsAfterRemoval(world) ==
            Filter(world.collaborators,
                   [member \in Range(world.collaborators) |-> member.id # collaboratorId])
        applied == Filter(worlds, applies)
    IN  commitAndQueue([handler |-> "handleRemoveCollaborator",
                        input |-> <<worldId, collaboratorId, eager>>],
            [i \in 1..Len(worlds) |->
                IF applies[worlds[i]]
                THEN Spread(worlds[i],
                         [collaborators |-> collaboratorsAfterRemoval(worlds[i]),
                          activity |-> appendActivity(worlds[i].activity,
                                                      removalEntry(worlds[i]))])
                ELSE worlds[i]],
            IF applied # <<>> /\ eager
            THEN <<[type |-> "setCollaborators", worldId |-> worldId,
                    collaborators |-> collaboratorsAfterRemoval(applied[Len(applied)])],
                   [type |-> "appendActivity", worldId |-> worldId,
                    entries |-> <<removalEntry(applied[Len(applied)])>>]>>
            ELSE <<>>,
            IF applied # <<>> THEN 1 ELSE 0)

handleToggleFavorite(active, pageId) ==
    LET activeWorld == worlds[active]
        page == findPageInTree(activeWorld.pages, pageId)
        nextFavorite == ~(IF page # <<>> THEN page[1].favorite ELSE FALSE)
    IN  commitAndQueue([handler |-> "handleToggleFavorite",
                        input |-> <<activeWorld.id, pageId>>],
            mapWorlds(worlds, activeWorld.id,
                [world \in Range(worlds) |->
                    Spread(world,
                        [pages |-> updatePageInTree(world.pages, pageId,
                                       [node \in Clones(world.pages) |->
                                           Spread(node, [favorite |-> ~node.favorite])])])]),
            <<buildPageChange(activeWorld.id, pageId, [favorite |-> nextFavorite])>>,
            0)

handleDuplicatePage(active, pageId) ==
    LET activeWorld == worlds[active]
        sourcePage == findPageInTree(activeWorld.pages, pageId)
    IN  /\ sourcePage # <<>>
        /\ LET duplicateTitle == sourcePage[1].title \o " copy"
               duplicatePage == [id |-> generateId("page", nextId),
                                 title |-> duplicateTitle,
                                 content |-> sourcePage[1].content,
                                 favorite |-> FALSE,
                                 children |-> clonePageTree(sourcePage[1].children)]
               duplicateEntry == buildActivityEntry("duplicate", duplicateTitle,
                                     "Copied from " \o sourcePage[1].title, nextId + 1)
               duplicateParentId == findParentId(activeWorld.pages, pageId, NoId)
           IN  commitAndQueue([handler |-> "handleDuplicatePage",
                               input |-> <<activeWorld.id, pageId>>],
                   mapWorlds(worlds, activeWorld.id,
                       [world \in Range(worlds) |->
                           LET insertion == insertPageAfter(world.pages, pageId,
                                                            duplicatePage)
                           IN  Spread(world,
                                   [pages |-> IF insertion.inserted THEN insertion.nodes
                                              ELSE Append(world.pages, duplicatePage),
                                    activity |-> appendActivity(world.activity,
                                                                duplicateEntry)])]),
                   <<[type |-> "insertPage", worldId |-> activeWorld.id,
                      parentId |-> duplicateParentId, page |-> duplicatePage],
                     [type |-> "appendActivity", worldId |-> activeWorld.id,
                      entries |-> <<duplicateEntry>>]>>,
                   2)

handleDeletePage(active, pageId) ==
    LET activeWorld == worlds[active]
        removal == removePageFromTree(activeWorld.pages, pageId)
    IN  /\ removal.removed # <<>>
        /\ LET removedPage == removal.removed[1]
               deleteEntry == buildActivityEntry("delete", removedPage.title,
                                  IF removedPage.children # <<>>
                                  THEN "Removed the page and its nested entries"
                                  ELSE "Removed the page from the index", nextId)
           IN  commitAndQueue([handler |-> "handleDeletePage",
                               input |-> <<activeWorld.id, pageId>>],
                   mapWorlds(worlds, activeWorld.id,
                       [world \in Range(worlds) |->
                           Spread(world,
                               [pages |-> removal.nodes,
                                activity |-> appendActivity(world.activity, deleteEntry)])]),
                   <<[type |-> "removePage", worldId |-> activeWorld.id, pageId |-> pageId],
                     [type |-> "appendActivity", worldId |-> activeWorld.id,
                      entries |-> <<deleteEntry>>]>>,
                   1)

handlePageDrop(active, draggedPageId, targetId) ==
    LET activeWorld == worlds[active]
        draggedPage == findPageInTree(activeWorld.pages, draggedPageId)
        targetPage == findPageInTree(activeWorld.pages, targetId)
        moveEntry == buildActivityEntry("move", draggedPage[1].title,
                         IF targetPage # <<>>
                         THEN "Repositioned before " \o targetPage[1].title
                         ELSE "Reordered in the index", nextId)
    IN  /\ draggedPageId # targetId
        /\ ~isDescendant(activeWorld.pages, draggedPageId, targetId)
        /\ commitAndQueue([handler |-> "handlePageDrop",
                           input |-> <<activeWorld.id, draggedPageId, targetId>>],
               mapWorlds(worlds, activeWorld.id,
                   [world \in Range(worlds) |->
                       Spread(world,
                           [pages |-> movePageBefore(world.pages, draggedPageId, targetId),
                            activity |-> IF draggedPage # <<>>
                                         THEN appendActivity(world.activity, moveEntry)
                                         ELSE world.activity])]),
               <<[type |-> "movePage", worldId |-> activeWorld.id,
                  pageId |-> draggedPageId, targetId |-> targetId, position |-> "before"]>>
                   \o (IF draggedPage # <<>>
                       THEN <<[type |-> "appendActivity", worldId |-> activeWorld.id,
                               entries |-> <<moveEntry>>]>>
                       ELSE <<>>),
               IF draggedPage # <<>> THEN 1 ELSE 0)

\* A collaborator other than the current user
OtherCollaborator(role) ==
    [id |-> "user-2", name |-> "Archivist", email |-> "archivist@example.com",
     role |-> role, avatarColor |-> getAvatarColor("user-2")]

\* A world of the current user shared with user-2, and a world of user-2 shared
\* with the current user
SharedWorld ==
    Spread(SampleWorld("world-a", SamplePages, 1),
           [collaborators |-> <<getCurrentUserCollaborator("Owner"),
                                OtherCollaborator("Editor")>>])

ForeignWorld ==
    Spread(SampleWorld("world-c", <<>>, 0),
           [ownerId |-> "user-2",
            collaborators |-> <<OtherCollaborator("Owner"),
                                getCurrentUserCollaborator("Editor")>>])

EditWorldLists == {normalizeWorlds(<<SharedWorld>>),
                   normalizeWorlds(<<ForeignWorld, SharedWorld>>)}

\* The client after a bootstrap that adopted the server's list
EditInit ==
    /\ \E W \in EditWorldLists :
          /\ worlds = W
          /\ cache = <<CachedState(W, <<>>)>>
          /\ collection = upsertAll(<<>>, FALLBACK_USER_ID, W)
    /\ mounted = TRUE
    /\ pending = <<>>
    /\ saveStatus = "saved"
    /\ isOnline = TRUE
    /\ flushTimer = <<>>
    /\ inflight = <<>>
    /\ boot = [stage |-> "done", cached |-> FALSE, data |-> <<>>]
    /\ nextId = 10    \* generateId gives ids the sample worlds do not hold
    /\ mutations = 0
    /\ failures = 0
    /\ serverLog = <<>>
    /\ acked = {}
    /\ made = <<>>
    /\ last = [op |-> "bootOk", arg |-> <<>>]

\* The ids the interface offers for a world: its pages, its collaborators
OfferedPages(world) == {node.id : node \in Range(flattenPages(world.pages))}

OfferedMembers(world) == {member.id : member \in Range(world.collaborators)}

EditNext ==
    \/ handleCreateWorldWithin(MaxEdits)
    \/ \E w \in 1..Len(worlds) : commitWorldRename(worlds[w].id, "Renamed")
    \/ \E w \in 1..Len(worlds) : handleDuplicateWorld(worlds[w].id)
    \/ \E w \in 1..Len(worlds) : \E eager \in BOOLEAN : handleDeleteWorld(worlds[w].id, eager)
    \/ \E w \in 1..Len(worlds) :
          \E member \in OfferedMembers(worlds[w]) \cup {"user-x"} :
             \E eager \in BOOLEAN : handleRemoveCollaborator(worlds[w].id, member, eager)
    \/ \E active \in 1..Len(worlds) :
          \E parentId \in {NoId} \cup OfferedPages(worlds[active]) :
             handleAddPageWithin(MaxEdits, active, parentId)
    \/ \E active \in 1..Len(worlds) :
          \E pageId \in OfferedPages(worlds[active]) :
             \E draft \in {"Retitled", "One"} : handleCommitPageRename(active, pageId, draft)
    \/ \E active \in 1..Len(worlds) :
          \E pageId \in OfferedPages(worlds[active]) : handleToggleFavorite(active, pageId)
    \/ \E active \in 1..Len(worlds) :
          \E pageId \in OfferedPages(worlds[active]) : handleDuplicatePage(active, pageId)
    \/ \E active \in 1..Len(worlds) :
          \E pageId \in OfferedPages(worlds[active]) : handleDeletePage(active, pageId)
    \/ \E active \in 1..Len(worlds) :
          \E pageId \in OfferedPages(worlds[active]) :
             \E targetId \in OfferedPages(worlds[active]) :
                handlePageDrop(active, pageId, targetId)

EditSpec == EditInit /\ [][EditNext]_vars

\* =========================================================================
\* Properties of the sync client
\* =========================================================================
RECURSIVE IsSubsequence(_, _)
\* s is what is left of t after removing some of its elements
IsSubsequence(s, t) ==
    IF s = <<>> THEN TRUE
    ELSE IF t = <<>> THEN FALSE
    ELSE IF Head(s) = Head(t) THEN IsSubsequence(Tail(s), Tail(t))
    ELSE IsSubsequence(s, Tail(t))

\* The number of pages with this id in the page trees of a world list
PageCount(ws, pageId) ==
    LET RECURSIVE count(_)
        count(w) == IF w > Len(ws) THEN 0
                    ELSE Cardinality({k \in 1..Len(flattenPages(ws[w].pages)) :
                                         flattenPages(ws[w].pages)[k].id = pageId})
                         + count(w + 1)
    IN  count(1)

\* The world list shows the effect of a change a local mutation queued
Reflected(change, ws) ==
    \E w \in 1..Len(ws) :
       /\ ws[w].id = change.worldId
       /\ CASE change.type = "insertPage" ->
                   findPageInTree(ws[w].pages, change.page.id) # <<>>
            [] change.type = "appendActivity" ->
                   \A e \in Range(change.entries) :
                      \E a \in Range(ws[w].activity) : a.id = e.id
            [] OTHER -> TRUE

\* C1: when a flush's request fails, the pending queue afterwards is exactly
\* the batch that was sent followed by the changes queued while the request
\* was in flight, each change once and in order, and the status is offline.
FailedFlushRequeuesBatchOnce ==
    last.op = "flushFail" =>
        /\ pending = last.arg[1].batch \o last.arg[1].queued
        /\ saveStatus = "offline"

\* C2: for a queue holding an insertPage change, when the flush has failed
\* twice and then succeeds, the client holds the world list the server
\* acknowledged, an empty pending queue and status saved, and the inserted page
\* occurs exactly once in the server's state and in the local state.
RetriedFlushInsertsPageOnce ==
    (last.op = "flushOk" /\ failures = MaxRetries) =>
        \A change \in Range(last.arg[1].batch) :
           change.type = "insertPage" =>
              /\ worlds = normalizeWorlds(last.arg[1].data)
              /\ pending = <<>>
              /\ saveStatus = "saved"
              /\ PageCount(listWorldsByOwner(collection), change.page.id) = 1
              /\ PageCount(worlds, change.page.id) = 1

\* C3: a change queued by a local mutation while a flush request was in
\* flight is, once that flush has settled, still in the pending queue and
\* still reflected in the local world list, unless a flush whose batch
\* contains it has succeeded.
QueuedInFlightSurvivesSettle ==
    last.op \in {"flushOk", "flushFail"} =>
        \A change \in Range(last.arg[1].queued) :
           \/ change \in acked
           \/ /\ change \in Range(pending)
              /\ Reflected(change, worlds)

\* C4: in every reachable state at most one PATCH request issued by
\* flushPendingChanges is awaiting its response.
AtMostOneFlushInFlight == Len(inflight) <= 1

\* C5: the server's reducer never applies the same queued change twice.
EachChangeAppliedOnce ==
    \A i, j \in 1..Len(serverLog) : serverLog[i] = serverLog[j] => i = j

\* C6: when a flush's request succeeds, the pending queue is cleared, the
\* local world list is the normalized world list the server returned, the
\* cache holds that list with an empty queue, and the status is saved.
SuccessfulFlushAdoptsServerWorlds ==
    last.op = "flushOk" =>
        /\ pending = <<>>
        /\ worlds = normalizeWorlds(last.arg[1].data)
        /\ cache = <<CachedState(normalizeWorlds(last.arg[1].data), <<>>)>>
        /\ saveStatus = "saved"

\* a flush of a non-empty batch has succeeded and the server returned worlds
SuccessfulFlushHappened ==
    /\ last.op = "flushOk"
    /\ last.arg[1].batch # <<>>
    /\ last.arg[1].data # <<>>
    /\ made # <<>>

\* C7: a flush invoked with an empty pending queue sends no request and sets
\* status saved; a flush invoked while the client is offline sends no request,
\* sets status offline and leaves the pending queue unchanged.
FlushSendsNothingWhenEmptyOrOffline ==
    [][(TimerFire \/ handleManualSync) =>
          /\ pending = <<>> => (inflight' = inflight /\ saveStatus' = "saved")
          /\ (pending # <<>> /\ ~isOnline) =>
                (inflight' = inflight /\ saveStatus' = "offline" /\ pending' = pending)]_vars

\* C8: each local mutation appends its changes at the end of the pending
\* queue and sets status saving when online and offline otherwise; the queue
\* always lists unsent changes in the order the mutations made them; the batch
\* a flush sends is the entire queue in that order.
QueueListsUnsentChangesInOrder ==
    [][/\ IsSubsequence(pending', made')
       /\ mutations' # mutations =>
             /\ pending' = pending \o SubSeq(made', Len(made) + 1, Len(made'))
             /\ saveStatus' = IF isOnline THEN "saving" ELSE "offline"
       /\ Len(inflight') > Len(inflight) =>
             inflight'[Len(inflight')].batch = pending']_vars

\* C9: after a flush has failed, once the transport no longer fails, the client
\* eventually reaches status saved with an empty pending queue.
FailedFlushEventuallySaved ==
    [](last.op = "flushFail" /\ failures = MaxFailures
          => <>(saveStatus = "saved" /\ pending = <<>>))

\* C10: when connectivity changes from offline to online while the pending
\* queue is non-empty, a flush of the queue is started in that step.
OnlineWithPendingFlushesAtOnce ==
    [][(mounted /\ ~isOnline /\ isOnline' /\ pending # <<>>) =>
          /\ Len(inflight') = Len(inflight) + 1
          /\ inflight'[Len(inflight')].batch = pending
          /\ saveStatus' = "syncing"
          /\ pending' = pending]_vars

\* connectivity has just returned while the queue was not empty
WentOnlineWithPending ==
    /\ last.op = "online"
    /\ pending # <<>>
    /\ isOnline

\* C11: a manual sync cancels the armed debounce timer, if any, and flushes in
\* the same step (the whole queue is sent when the client is online and the
\* queue is not empty); afterwards no timer armed before it is left to fire.
ManualSyncCancelsTimerAndFlushes ==
    [][handleManualSync =>
          /\ flushTimer' = <<>>
          /\ pending' = pending
          /\ (pending # <<>> /\ isOnline) =>
                /\ Len(inflight') = Len(inflight) + 1
                /\ inflight'[Len(inflight')].batch = pending
                /\ saveStatus' = "syncing"
          /\ pending = <<>> => (inflight' = inflight /\ saveStatus' = "saved")
          /\ (pending # <<>> /\ ~isOnline) =>
                (inflight' = inflight /\ saveStatus' = "offline")]_vars

\* a manual sync has cancelled an armed timer and sent the queue
ManualSyncCancelledTimer ==
    /\ last.op = "manual"
    /\ last.arg # <<>>
    /\ flushTimer = <<>>
    /\ inflight # <<>>
    /\ inflight[Len(inflight)].batch = pending

\* C12: at bootstrap, when a local cache is present, its world list and its
\* pending queue are adopted before any network reply, and the status is
\* offline if the adopted queue is non-empty and saved otherwise.
CacheAdoptedAtMount ==
    (last.op = "mount" /\ last.arg # <<>> /\ last.arg[1].worlds # <<>>) =>
        /\ worlds = last.arg[1].worlds
        /\ pending = last.arg[1].pendingChanges
        /\ boot.stage = "fetching"
        /\ saveStatus = IF last.arg[1].pendingChanges # <<>> THEN "offline" ELSE "saved"

\* The ids of the worlds of a list
WorldIds(ws) == {ws[w].id : w \in 1..Len(ws)}

BootFailureKeepsLocalState ==
    [][BootFail => (worlds' = worlds /\ pending' = pending)]_vars

\* =========================================================================
\* Properties of the reducer
\* =========================================================================
\* C15: for every world list W and change lists C1, C2,
\* applyWorldChanges(W, C1 ++ C2) = applyWorldChanges(applyWorldChanges(W, C1), C2).
ReducerComposesSequentially ==
    LET W == last.arg[1]
        C == last.arg[2]
    IN  \A k \in 0..Len(C) :
           LET C1 == SubSeq(C, 1, k)
               C2 == SubSeq(C, k + 1, Len(C))
           IN  applyWorldChanges(W, C1 \o C2)
                  = applyWorldChanges(applyWorldChanges(W, C1), C2)

\* a call with three changes, of which the second changes what the first built
ReducedThreeChanges ==
    /\ Len(last.arg[2]) = MaxChanges
    /\ last.arg[1] # <<>>
    /\ worlds # last.arg[1]
    /\ worlds = applyWorldChanges(last.arg[1], last.arg[2])
    /\ worlds # applyWorldChanges(last.arg[1], Tail(last.arg[2]))
    /\ worlds # applyWorldChanges(last.arg[1], SubSeq(last.arg[2], 1, 2))

\* C16: a change of unknown type, or a change of a type other than createWorld
\* whose worldId matches no world of the list, raises no error and leaves the
\* world list as it was before that change.
ReducerIgnoresUnknownAndUnaddressed ==
    [][LET change == last'.arg[2][Len(last'.arg[2])]
       IN  (\/ change.type \notin SUPPORTED_CHANGE_TYPES
            \/ (change.type # "createWorld" /\ change.worldId \notin WorldIds(worlds)))
              => worlds' = worlds]_vars

\* the reducer has been given a change of unknown type and then a change for a
\* world the list lacks, on a list that has worlds
ReducedUnknownAndUnaddressed ==
    LET C == last.arg[2]
    IN  /\ last.op = "applyWorldChanges"
        /\ Len(C) >= 2
        /\ C[Len(C) - 1].type = "renameWorld"
        /\ C[Len(C)].type = "insertPage"
        /\ C[Len(C)].worldId = "world-x"
        /\ worlds # <<>>
        /\ worlds = last.arg[1]

\* The world of a list that has this id
WorldById(ws, id) == ws[CHOOSE w \in 1..Len(ws) : ws[w].id = id]

\* C17: after any non-empty sequence of appendActivity changes applied to a
\* world, that world's activity has at most 40 entries, and the first entry of
\* the last appendActivity change with a non-empty entries list is at index 0.
ActivityCappedNewestFirst ==
    LET W == last.arg[1]
        C == last.arg[2]
    IN  \A id \in WorldIds(W) :
           (C # <<>> /\ \A k \in 1..Len(C) :
                           C[k].type = "appendActivity" /\ C[k].worldId = id) =>
              LET activity == WorldById(worlds, id).activity
                  filled == {k \in 1..Len(C) : C[k].entries # <<>>}
                  newest == CHOOSE k \in filled : \A j \in filled : j <= k
              IN  /\ Len(activity) <= ACTIVITY_LIMIT
                  /\ filled # {} =>
                        activity[1] = sanitizeActivityEntry(C[newest].entries[1])

\* appendActivity changes alone have pushed entries of a world out of its
\* activity, and the last of them carried no entry
AppendedBeyondTheCap ==
    LET W == last.arg[1]
        C == last.arg[2]
    IN  /\ last.op = "applyWorldChanges"
        /\ Len(C) = MaxChanges
        /\ \A k \in 1..Len(C) : C[k].type = "appendActivity" /\ C[k].worldId = "world-a"
        /\ C[Len(C)].entries = <<>>
        /\ "world-a" \in WorldIds(W)
        /\ Len(WorldById(worlds, "world-a").activity) = ACTIVITY_LIMIT
        /\ WorldById(worlds, "world-a").activity[ACTIVITY_LIMIT]
              # WorldById(W, "world-a").activity[Len(WorldById(W, "world-a").activity)]

\* The ids of a forest's nodes, and whether they are pairwise distinct
PageIds(nodes) == {flattenPages(nodes)[i].id : i \in 1..Len(flattenPages(nodes))}

DistinctIds(nodes) == Cardinality(PageIds(nodes)) = Len(flattenPages(nodes))

\* C18: for a world whose forest F has pairwise distinct ids, any parentId
\* (none, present in F, absent from F) and any page p whose id does not occur
\* in F, applying insertPage(parentId, p) and then removePage(p.id) yields a
\* forest equal to F.
InsertThenRemoveIsNoOp ==
    LET W == last.arg[1]
        C == last.arg[2]
        n == Len(C)
    IN  (/\ last.op = "applyWorldChanges"
         /\ n >= 2
         /\ C[n - 1].type = "insertPage"
         /\ C[n].type = "removePage"
         /\ C[n].worldId = C[n - 1].worldId
         /\ C[n].pageId = C[n - 1].page.id) =>
           LET before == applyWorldChanges(W, SubSeq(C, 1, n - 2))
           IN  \A w \in 1..Len(before) :
                  (/\ before[w].id = C[n].worldId
                   /\ DistinctIds(before[w].pages)
                   /\ C[n].pageId \notin PageIds(before[w].pages)) =>
                      /\ Len(worlds) = Len(before)
                      /\ worlds[w].pages = before[w].pages

\* A page was inserted under a nested page of a rearranged forest and removed
\* again
InsertedUnderPageThenRemoved ==
    LET C == last.arg[2]
    IN  /\ last.op = "applyWorldChanges"
        /\ Len(C) = 3
        /\ C[1].type = "movePage" /\ C[1].targetId = "page-3"
        /\ C[2].type = "insertPage" /\ C[2].worldId = "world-a" /\ C[2].parentId = "page-2"
        /\ C[3].type = "removePage" /\ C[3].worldId = "world-a" /\ C[3].pageId = "page-9"
        /\ "world-a" \in WorldIds(worlds)
        /\ WorldById(worlds, "world-a").pages # SamplePages
        /\ "page-2" \in PageIds(WorldById(worlds, "world-a").pages)
        /\ "page-9" \notin PageIds(WorldById(worlds, "world-a").pages)

\* The ids of the children of the node `id`, in order; of the roots for NoId
ChildIds(nodes, id) ==
    LET kids == IF id = NoId THEN nodes ELSE findPageInTree(nodes, id)[1].children
    IN  [i \in 1..Len(kids) |-> kids[i].id]

\* The node whose child `id` is; NoId for a root
ParentOf(nodes, id) ==
    CHOOSE parent \in PageIds(nodes) \cup {NoId} :
        \E i \in 1..Len(ChildIds(nodes, parent)) : ChildIds(nodes, parent)[i] = id

\* How many nodes of the forest carry this id
Occurrences(nodes, id) ==
    Cardinality({i \in 1..Len(flattenPages(nodes)) : flattenPages(nodes)[i].id = id})

\* A node's own fields, its children left out
Details(nodes, id) ==
    LET node == findPageInTree(nodes, id)[1]
    IN  [f \in DOMAIN node \ {"children"} |-> node[f]]

\* Every node of F is in R with the same fields, and every node of F other
\* than `parent` has the same children in the same order (NoId: the roots)
OthersKeepPlace(F, R, parent) ==
    /\ PageIds(F) \subseteq PageIds(R)
    /\ \A id \in PageIds(F) : Details(R, id) = Details(F, id)
    /\ \A id \in (PageIds(F) \cup {NoId}) \ {parent} : ChildIds(R, id) = ChildIds(F, id)

\* C19: addPageToTree adds the node exactly once: with parentId none it is the
\* last root, with parentId naming a node of the forest it is the last child of
\* that node, with parentId naming no node it is the last root; all other
\* nodes keep their position and order.
AddPageToTreePlacesNodeOnce ==
    last.op = "addPageToTree" =>
        LET F == last.arg[1]
            parentId == last.arg[2]
            page == last.arg[3]
            R == last.result.nodes
            parent == IF parentId \in PageIds(F) THEN parentId ELSE NoId
        IN  /\ Occurrences(R, page.id) = 1
            /\ findPageInTree(R, page.id) = <<normalizePage(page)>>
            /\ ChildIds(R, parent) = Append(ChildIds(F, parent), page.id)
            /\ PageIds(R) = PageIds(F) \cup PageIds(<<page>>)
            /\ OthersKeepPlace(F, R, parent)

\* A page was added under a nested page that already had a child
AddedAsLastChildOfNestedPage ==
    /\ last.op = "addPageToTree"
    /\ last.arg[2] \in PageIds(last.arg[1])
    /\ ParentOf(last.arg[1], last.arg[2]) # NoId
    /\ ChildIds(last.arg[1], last.arg[2]) # <<>>
    /\ Len(ChildIds(last.result.nodes, last.arg[2])) = Len(ChildIds(last.arg[1], last.arg[2])) + 1

\* C20: insertPageBefore / insertPageAfter: when targetId names a node of the
\* forest (ids pairwise distinct) the node is inserted exactly once, as a
\* sibling of the target immediately before / after it, and inserted is true;
\* when targetId names no node, inserted is false and the forest returned
\* equals the input.
InsertRelativePlacesNodeBesideTarget ==
    last.op \in {"insertPageBefore", "insertPageAfter"} =>
        LET F == last.arg[1]
            targetId == last.arg[2]
            page == last.arg[3]
            R == last.result.nodes
        IN  IF targetId \in PageIds(F)
            THEN DistinctIds(F) =>
                   LET parent == ParentOf(F, targetId)
                       siblings == ChildIds(F, parent)
                       k == CHOOSE k \in 1..Len(siblings) : siblings[k] = targetId
                       at == IF last.op = "insertPageBefore" THEN k - 1 ELSE k
                   IN  /\ last.result.inserted = TRUE
                       /\ Occurrences(R, page.id) = 1
                       /\ findPageInTree(R, page.id) = <<normalizePage(page)>>
                       /\ ChildIds(R, parent) = SubSeq(siblings, 1, at) \o <<page.id>>
                                                \o SubSeq(siblings, at + 1, Len(siblings))
                       /\ PageIds(R) = PageIds(F) \cup PageIds(<<page>>)
                       /\ OthersKeepPlace(F, R, parent)
            ELSE /\ last.result.inserted = FALSE
                 /\ R = F

\* A page was inserted before a nested page that is not the first of its
\* siblings
InsertedBeforeNestedTarget ==
    /\ last.op = "insertPageBefore"
    /\ last.arg[2] \in PageIds(last.arg[1])
    /\ ParentOf(last.arg[1], last.arg[2]) # NoId
    /\ ChildIds(last.arg[1], ParentOf(last.arg[1], last.arg[2]))[1] # last.arg[2]
    /\ last.result.inserted = TRUE

\* The ids of a forest's nodes in pre-order
FlatIds(nodes) == [i \in 1..Len(flattenPages(nodes)) |-> flattenPages(nodes)[i].id]

\* C21: removePageFromTree detaches the first node matching the id in
\* pre-order together with its whole subtree and returns that subtree as
\* removed; every other node stays in place and in order; when no node
\* matches, removed is null and the forest returned equals the input.
RemoveDetachesFirstMatch ==
    last.op = "removePageFromTree" =>
        LET F == last.arg[1]
            pageId == last.arg[2]
            R == last.result.nodes
            flat == FlatIds(F)
        IN  IF pageId \in PageIds(F)
            THEN LET first == CHOOSE i \in 1..Len(flat) :
                                 flat[i] = pageId /\ \A j \in 1..(i - 1) : flat[j] # pageId
                     size == Len(flattenPages(findPageInTree(F, pageId)))
                 IN  /\ last.result.removed = findPageInTree(F, pageId)
                     /\ FlatIds(R) = SubSeq(flat, 1, first - 1)
                                     \o SubSeq(flat, first + size, Len(flat))
            ELSE /\ last.result.removed = <<>>
                 /\ R = F

\* The same statement for the forests whose ids are pairwise distinct
RemoveDetachesOnlyMatch ==
    (last.op = "removePageFromTree" /\ DistinctIds(last.arg[1])) => RemoveDetachesFirstMatch

\* C22: movePageBefore(forest, id, targetId) is remove(id) followed by
\* insertBefore(targetId): if the target is still in the forest after the
\* removal the moved subtree sits immediately before it, otherwise the moved
\* subtree is appended as the last root; if id names no node the forest is
\* returned unchanged.
MoveIsRemoveThenInsertBefore ==
    last.op = "movePageBefore" =>
        LET F == last.arg[1]
            targetId == last.arg[3]
            R == last.result.nodes
            removal == removePageFromTree(F, last.arg[2])
            G == removal.nodes
        IN  IF removal.removed = <<>> THEN R = F
            ELSE LET moved == normalizePage(removal.removed[1])
                 IN  IF targetId \in PageIds(G)
                     THEN LET parent == ParentOf(G, targetId)
                              siblings == ChildIds(G, parent)
                              k == CHOOSE k \in 1..Len(siblings) : siblings[k] = targetId
                          IN  /\ findPageInTree(R, moved.id) = <<moved>>
                              /\ ChildIds(R, parent) = SubSeq(siblings, 1, k - 1) \o <<moved.id>>
                                                       \o SubSeq(siblings, k, Len(siblings))
                              /\ Len(flattenPages(R)) = Len(flattenPages(G)) + Len(flattenPages(<<moved>>))
                              /\ OthersKeepPlace(G, R, parent)
                     ELSE R = Append(G, moved)

\* A page was moved before a page of its own subtree: the target left the
\* forest with it, and the subtree became the last root
MovedBeforeOwnDescendant ==
    /\ last.op = "movePageBefore"
    /\ last.arg[2] \in PageIds(last.arg[1])
    /\ last.arg[3] \in PageIds(last.arg[1]) \ {last.arg[2]}
    /\ last.arg[3] \notin PageIds(removePageFromTree(last.arg[1], last.arg[2]).nodes)
    /\ Len(last.result.nodes) >= 2
    /\ last.result.nodes[Len(last.result.nodes)].id = last.arg[2]

\* C23: isDescendant(forest, a, c) is true exactly when c is the id of a node
\* strictly below the node with id a (never for c = a in a forest with distinct
\* ids, false when a is absent); so it is transitive: isDescendant(F, a, b) and
\* isDescendant(F, b, c) imply isDescendant(F, a, c).
IsDescendantMeansStrictlyBelow ==
    last.op = "isDescendant" =>
        LET F == last.arg[1]
            a == last.arg[2]
            c == last.arg[3]
            below == IF a \in PageIds(F) THEN PageIds(findPageInTree(F, a)[1].children)
                     ELSE {}
        IN  /\ last.result.value = (c \in below)
            /\ (DistinctIds(F) /\ c = a) => last.result.value = FALSE
            /\ \A b \in SampleIds :
                  (isDescendant(F, a, b) /\ isDescendant(F, b, c)) => last.result.value

\* The question was asked for a node two levels below another, and answered
\* yes
AskedAboutGrandchild ==
    /\ last.op = "isDescendant"
    /\ last.result.value = TRUE
    /\ last.arg[3] \in PageIds(last.arg[1])
    /\ ParentOf(last.arg[1], last.arg[3]) # last.arg[2]
    /\ ParentOf(last.arg[1], ParentOf(last.arg[1], last.arg[3])) = last.arg[2]

\* C24: for every forest F, flattenPages(clonePageTree(F)) has the same length
\* as flattenPages(F) and the same title, content and favorite at every
\* position, and every id in the clone differs from every id of F.
CloneKeepsContentWithFreshIds ==
    last.op = "clonePageTree" =>
        LET flat == flattenPages(last.arg[1])
            copy == flattenPages(last.result.nodes)
        IN  /\ Len(copy) = Len(flat)
            /\ \A i \in 1..Len(flat) :
                  /\ copy[i].title = flat[i].title
                  /\ copy[i].content = flat[i].content
                  /\ copy[i].favorite = flat[i].favorite
            /\ PageIds(last.result.nodes) \cap PageIds(last.arg[1]) = {}

\* The collaborators of a world that have role Owner (their positions)
Owners(world) ==
    {i \in 1..Len(world.collaborators) : world.collaborators[i].role = "Owner"}

\* C25: for every partial world record (any collaborator list, several Owner
\* entries or several entries sharing an id included, and any declared
\* ownerId) the normalized world has exactly one collaborator with role Owner,
\* and that collaborator's id equals the normalized world's ownerId.
NormalizedWorldHasOneOwner ==
    last.op = "normalizeWorlds" =>
        \A w \in 1..Len(worlds) :
            /\ Cardinality(Owners(worlds[w])) = 1
            /\ \A i \in Owners(worlds[w]) : worlds[w].collaborators[i].id = worlds[w].ownerId

\* C26: for every partial world record W (missing, null or empty-string ids
\* and ownerId and missing fields included), normalizeWorlds applied to
\* normalizeWorlds([W]) returns a list equal to normalizeWorlds([W]): from the
\* second pass on, the list returned equals the list given.
NormalizationIsIdempotent ==
    (last.op = "normalizeWorlds" /\ mutations > 1) => worlds = last.arg[1]

\* What the server equivalence compares of a world list: the ids, names, pages
\* and collaborators of its worlds
Projection(ws) ==
    {[id |-> ws[w].id, name |-> ws[w].name, pages |-> ws[w].pages,
      collaborators |-> ws[w].collaborators] : w \in 1..Len(ws)}

\* C27: for any world list E stored for an owner and any non-empty supported
\* change list C, after syncWorldChanges(owner, C) the worlds stored for the
\* owner are exactly applyWorldChanges(E, C) (same ids, names, pages and
\* collaborators; worlds absent from the result are deleted), and that list is
\* what the call returns; with C empty nothing is written and E is returned.
ServerStoresReducedWorlds ==
    last.op = "PATCH" =>
        LET E == listWorldsByOwner(last.arg[1])
            C == last.applied
            next == applyWorldChanges(E, C)
        IN  IF C = <<>>
            THEN /\ collection = last.arg[1]
                 /\ last.data = serializeWorlds(E)
            ELSE /\ Projection(listWorldsByOwner(collection)) = Projection(next)
                 /\ Len(collection) = Len(next)
                 /\ Projection(last.data) = Projection(next)
                 /\ Len(last.data) = Len(next)

\* A request deleted one stored world, created another and left a third
ServerDeletedAndCreated ==
    /\ last.op = "PATCH"
    /\ Len(last.applied) = 2
    /\ WorldIds(listWorldsByOwner(last.arg[1])) = {"world-a", "world-c"}
    /\ WorldIds(listWorldsByOwner(collection)) = {"world-b", "world-c"}

\* C28: for any request body, the change list handed to syncWorldChanges holds
\* exactly the elements of body.changes that are objects whose type is one of
\* the nine supported change types, in their original order; a changes value
\* that is not an array yields the empty list.
ParseKeepsSupportedObjectsInOrder ==
    last.op = "PATCH" =>
        LET raw == Get(last.arg[2], "changes", [array |-> <<>>])
            Supported(item) ==
                /\ "json" \notin DOMAIN item
                /\ "type" \in DOMAIN item
                /\ item.type \in {"createWorld", "updateWorld", "deleteWorld", "insertPage",
                                  "updatePage", "removePage", "movePage", "appendActivity",
                                  "setCollaborators"}
        IN  IF "array" \in DOMAIN raw
            THEN /\ IsSubsequence(last.applied, raw.array)
                 /\ \A k \in 1..Len(last.applied) : Supported(last.applied[k])
                 /\ Len(last.applied)
                       = Cardinality({k \in 1..Len(raw.array) : Supported(raw.array[k])})
            ELSE last.applied = <<>>

\* A request came with an unsupported element ahead of a supported one
ParsedMixedBody ==
    /\ last.op = "PATCH"
    /\ "changes" \in DOMAIN last.arg[2]
    /\ "array" \in DOMAIN last.arg[2].changes
    /\ Len(last.arg[2].changes.array) = 2
    /\ last.arg[2].changes.array[1] = [type |-> "renameWorld", worldId |-> "world-a"]
    /\ Len(last.applied) = 1
    /\ last.applied[1].type = "createWorld"

\* C29: after applyWorldChanges on a world list with pairwise distinct ids and
\* any change list, the world ids of the result are pairwise distinct, and
\* after a createWorld change the list holds exactly one world with that id,
\* equal to the world carried by the change.
CreateWorldInsertsOrReplacesById ==
    LET W == last.arg[1]
        C == last.arg[2]
    IN  (last.op = "applyWorldChanges" /\ Cardinality(WorldIds(W)) = Len(W)) =>
           /\ Cardinality(WorldIds(worlds)) = Len(worlds)
           /\ (C # <<>> /\ C[Len(C)].type = "createWorld") =>
                 /\ Cardinality({w \in 1..Len(worlds) : worlds[w].id = C[Len(C)].world.id}) = 1
                 /\ WorldById(worlds, C[Len(C)].world.id) = C[Len(C)].world

\* A createWorld change replaced a world the list already held
CreateWorldReplacedWorld ==
    LET W == last.arg[1]
        C == last.arg[2]
    IN  /\ last.op = "applyWorldChanges"
        /\ C # <<>>
        /\ C[Len(C)].type = "createWorld"
        /\ C[Len(C)].world.id \in WorldIds(W)
        /\ Len(worlds) = 2
        /\ WorldById(W, C[Len(C)].world.id) # C[Len(C)].world
        /\ WorldById(applyWorldChanges(W, SubSeq(C, 1, Len(C) - 1)), C[Len(C)].world.id)
              # C[Len(C)].world

\* C30: updatePageInTree and the updatePage change touch only the matching
\* node's own title, content and favorite: the node's id and children, and
\* every other node of the forest, are unchanged, and when no node matches the
\* forest is unchanged.
UpdateTouchesOnlyMatchingNode ==
    last.op = "updatePageInTree" =>
        LET F == last.arg[1]
            pageId == last.arg[2]
            R == last.result.nodes
            before == flattenPages(F)
            after == flattenPages(R)
        IN  /\ Len(R) = Len(F)
            /\ Len(after) = Len(before)
            /\ \A i \in 1..Len(before) :
                  /\ after[i].id = before[i].id
                  /\ FlatIds(after[i].children) = FlatIds(before[i].children)
                  /\ DOMAIN after[i] = DOMAIN before[i]
                  /\ \A f \in DOMAIN before[i] \ {"children", "title", "content", "favorite"} :
                        after[i][f] = before[i][f]
                  /\ before[i].id # pageId =>
                        /\ after[i].title = before[i].title
                        /\ after[i].content = before[i].content
                        /\ after[i].favorite = before[i].favorite
            /\ pageId \notin PageIds(F) => R = F

\* A page that has children was updated
UpdatedPageWithChildren ==
    /\ last.op = "updatePageInTree"
    /\ last.arg[2] \in PageIds(last.arg[1])
    /\ findPageInTree(last.arg[1], last.arg[2])[1].children # <<>>
    /\ findPageInTree(last.result.nodes, last.arg[2])[1].title = "Retitled"
    /\ findPageInTree(last.arg[1], last.arg[2])[1].title # "Retitled"


\* C31: every local mutation leaves exactly one debounce timer armed and sends
\* no request, so at most one timer is armed at any time, and the timer that
\* fires after a burst of mutations sends a single request whose batch holds
\* every change of the burst, in the order the burst queued them.
DebounceCoalescesBurst ==
    /\ [](Len(flushTimer) <= 1)
    /\ [][/\ last'.op = "mutate" =>
              /\ Len(flushTimer') = 1
              /\ Len(inflight') = Len(inflight)
          /\ (last.op = "mutate" /\ last'.op = "timer") =>
              /\ Len(inflight') <= Len(inflight) + 1
              /\ flushTimer[1].isOnline =>
                     /\ Len(inflight') = Len(inflight) + 1
                     /\ inflight'[Len(inflight')].batch = pending
                     /\ IsSubsequence(last.arg, pending)]_vars

\* A timer fired after two mutations in a row and sent the one request there
\* has been, with the four changes of the burst.
BurstSentAsOneRequest ==
    /\ last.op = "timer"
    /\ mutations = 2
    /\ Len(inflight) = 1
    /\ acked = {}
    /\ Len(inflight[1].batch) >= 4
    /\ inflight[1].batch = made
    /\ inflight[1].queued = <<>>
    /\ flushTimer = <<>>

\* C32: starting from worlds whose forests have pairwise distinct page ids,
\* after any sequence of local mutations the ids of the nodes of every world's
\* forest are pairwise distinct, and a world made by duplicating a world has no
\* page id in common with its source.
PageIdsStayUnique ==
    /\ \A w \in 1..Len(worlds) : DistinctIds(worlds[w].pages)
    /\ (last.op = "mutate" /\ last.handler = "handleDuplicateWorld") =>
           PageIds(worlds[Len(worlds)].pages)
               \cap PageIds(WorldById(last.before, last.input[1]).pages) = {}

\* C33: for a forest with pairwise distinct ids and any pageId, targetId and
\* position, movePageBefore and the movePage change return a forest in which
\* every page id occurs as often as in the input: no page is lost and none is
\* duplicated.
MoveKeepsEveryPage ==
    (last.op \in {"movePageBefore", "movePage"} /\ DistinctIds(last.arg[1])) =>
        \A id \in PageIds(last.arg[1]) \cup PageIds(last.result.nodes) :
            Occurrences(last.result.nodes, id) = Occurrences(last.arg[1], id)

\* The movePage change moved a page after one of its own descendants: target
\* and page left the forest together, and the page came back as the last root.
MovedAfterOwnDescendant ==
    /\ last.op = "movePage"
    /\ last.arg[4] = "after"
    /\ DistinctIds(last.arg[1])
    /\ isDescendant(last.arg[1], last.arg[2], last.arg[3])
    /\ last.result.nodes # last.arg[1]
    /\ last.result.nodes[Len(last.result.nodes)].id = last.arg[2]

\* C34: for every local mutation handler, applying the changes it queued with
\* applyWorldChanges to the world list it found yields the world list of its
\* optimistic update, sibling order included.
OptimisticStateAgreesWithReplay ==
    last.op = "mutate" => worlds = applyWorldChanges(last.before, last.queued)

\* C35: in every reachable state of the sync client, status saved implies that
\* the pending queue is empty.
SavedMeansQueueEmpty == saveStatus = "saved" => pending = <<>>

\* A flush succeeded while changes queued during its flight were waiting: the
\* status is saved and the queue is empty.
SavedAfterFlushEmptiedQueue ==
    /\ last.op = "flushOk"
    /\ last.arg[1].queued # <<>>
    /\ saveStatus = "saved"
    /\ pending = <<>>

\* C36: a flush started by a debounce timer that was armed while the client
\* was online and fires after connectivity was lost, with changes in the
\* queue, sends no request and sets the status to offline (the timer's
\* callback never touches the queue).
StaleTimerSendsNothingOffline ==
    (/\ last.op = "timer"
     /\ last.arg[1].isOnline
     /\ ~isOnline
     /\ pending # <<>>) =>
        /\ saveStatus = "offline"
        /\ Len(inflight) = last.arg[1].inflight

\* C37: when the bootstrap GET and a flush PATCH were in flight together and
\* the flush has adopted the server's post-change list and cleared the queue,
\* the bootstrap reply is not adopted over it: once the bootstrap has
\* succeeded with changes acknowledged, nothing queued and nothing in flight,
\* the local world list is the list the server stores.
BootDoesNotOverwriteFlush ==
    (/\ last.op = "bootOk"
     /\ acked # {}
     /\ pending = <<>>
     /\ inflight = <<>>) =>
        worlds = normalizeWorlds(serializeWorlds(listWorldsByOwner(collection)))

\* The stored documents as a set: the order find() lists them in left aside
Stored(documents) == Range(documents)

\* C38: when two sync requests of one owner have been processed concurrently
\* and both have returned, the stored state is the one that applying the two
\* change lists one after the other, in one order or the other, gives.
ConcurrentSyncsAreSerialisable ==
    (/\ Len(inflight) = 2
     /\ \A i \in 1..2 : inflight[i].pc = "done") =>
        LET first == last.arg[1]
            Serial(A, B) ==
                syncWorldChanges(syncWorldChanges(first, FALLBACK_USER_ID, A).stored,
                                 FALLBACK_USER_ID, B).stored
        IN  \/ Stored(collection)
                  = Stored(Serial(inflight[1].changes, inflight[2].changes))
            \/ Stored(collection)
                  = Stored(Serial(inflight[2].changes, inflight[1].changes))

\* C39: if syncWorldChanges fails partway, none of the batch's effects has been
\* persisted: with no other request at work, the stored documents are the ones
\* the request listed when it started.
FailedBatchLeavesNoTrace ==
    (Len(inflight) = 1 /\ inflight[1].pc = "failed") =>
        Stored(collection) = Stored(inflight[1].before)

\* C40: handleRemoveCollaborator changes no world and queues no change unless
\* the current user's id equals the world's ownerId, the target is in the
\* collaborator list and the target is not the owner; the setCollaborators
\* list it queues still contains the owner.
RemoveCollaboratorIsOwnerOnly ==
    (last.op = "mutate" /\ last.handler = "handleRemoveCollaborator") =>
        LET worldId == last.input[1]
            collaboratorId == last.input[2]
            world == WorldById(last.before, worldId)
            allowed == /\ world.ownerId = OwnerUid
                       /\ \E member \in Range(world.collaborators) :
                             member.id = collaboratorId
                       /\ collaboratorId # world.ownerId
        IN  /\ ~allowed => (worlds = last.before /\ last.queued = <<>>)
            /\ last.queued # <<>> =>
                  /\ last.queued[1].type = "setCollaborators"
                  /\ \E member \in Range(last.queued[1].collaborators) :
                        member.id = world.ownerId

\* The owner removed user-2 from world-a: the list queued holds the owner
\* alone, and world-a's collaborators are that list.
OwnerRemovedCollaborator ==
    /\ last.op = "mutate"
    /\ last.handler = "handleRemoveCollaborator"
    /\ last.input[2] = "user-2"
    /\ last.queued # <<>>
    /\ Len(WorldById(last.before, last.input[1]).collaborators) = 2
    /\ Len(last.queued[1].collaborators) = 1
    /\ WorldById(worlds, last.input[1]).collaborators = last.queued[1].collaborators
====
